---------------------------- MODULE Spec2Model ----------------------------
(***************************************************************************)
(* Model of the unused-resource scanning engine of cloud-cost-alert:      *)
(* account-set configuration (cost-explorer.ts), the scan orchestrator,   *)
(* the per-account region batching (unused-resources.ts) and the          *)
(* per-resource classification done by the resource checkers.             *)
(*                                                                         *)
(* Strings are sequences of one-character strings.  An account id is the  *)
(* string CHILD_ACCOUNTS holds for it.  A metric result is the number the *)
(* metric gateway returns, kept as an exact fraction [num, den].          *)
(***************************************************************************)
EXTENDS Integers, Sequences, FiniteSets, TLC

(***************************************************************************)
(* Bounds of the model (not program constants).                           *)
(***************************************************************************)
\* most resources the checkers of one region return in one scan
MaxPerRegion == 1
\* most resources all checkers together return in one run
MaxFound == 1
\* most region scans in which a checker's promise rejects, in one run
MaxEscapes == 1
\* most milliseconds the clock advances between two calls of a checker
MaxElapsedMs == 1
\* most datapoints of one metric response, and the largest datapoint
MaxDatapoints == 3
MaxDatapoint == 2
\* most samples CloudWatch aggregates into one daily datapoint
MaxSamples == 2
\* most invocations one container serves
MaxInvocations == 5

(***************************************************************************)
(* Program constants.                                                      *)
(***************************************************************************)
\* AWS_REGIONS.length: the regions are numbered in list order
NumRegions == 17
AWS_REGIONS == 1 .. NumRegions
\* const batchSize = 4
batchSize == 4
\* the inner Promise.all of a region scan holds 16 checker calls
NumCheckers == 16

\* the values of CHILD_ACCOUNTS the runs are started with: unset, one child
\* account, the caller's account before a child account, two child accounts
\* before the caller's, a list with blanks, padding and a repeated id, and
\* a value that is set but names no account
Configs ==
  { <<>>,
    <<",", " ">>,
    <<"2">>,
    <<"1", ",", "2">>,
    <<"2", ",", "3", ",", "1">>,
    <<" ", "2", ",", " ", ",", "2", " ">> }
\* the environments the runs are started in: every value of CHILD_ACCOUNTS
\* with ENABLE_ORGANIZATION_MODE unset (documented default true), and one
\* child account with the setting spelled out as "true" and as "false"
Environments ==
  { <<c, "">> : c \in Configs } \cup
    { <<<<"2">>, "true">>, <<<<"2">>, "false">> }

\* the regions in which the scanned accounts hold inventory and in which a
\* client constructor may throw; elsewhere every checker returns []
InventoryRegions == {1, 2, 17}
\* response.Account || "Unknown"
Unknown == <<"Unknown">>
\* the account GetCallerIdentity names when the call answers with one
CallerAccount == <<"1">>
\* absent value: cachedAccountId = null, credentials = undefined
Null == <<>>

(***************************************************************************)
(* String helpers: String.prototype.trim and String.prototype.split(",")  *)
(***************************************************************************)
RECURSIVE TrimLeft(_)
TrimLeft(s) ==
  IF s = <<>> THEN <<>>
  ELSE IF Head(s) = " " THEN TrimLeft(Tail(s)) ELSE s

RECURSIVE TrimRight(_)
TrimRight(s) ==
  IF s = <<>> THEN <<>>
  ELSE IF s[Len(s)] = " " THEN TrimRight(SubSeq(s, 1, Len(s) - 1)) ELSE s

trim(s) == TrimRight(TrimLeft(s))

\* split(","): the pieces between commas; "" splits into one empty piece
RECURSIVE SplitFrom(_, _)
SplitFrom(s, cur) ==
  IF s = <<>> THEN <<cur>>
  ELSE IF Head(s) = "," THEN <<cur>> \o SplitFrom(Tail(s), <<>>)
  ELSE SplitFrom(Tail(s), Append(cur, Head(s)))

split(s) == SplitFrom(s, <<>>)

SeqContains(q, x) == \E k \in 1 .. Len(q) : q[k] = x

\* a list in place of the Map: every non-blank entry is kept, repeats too
RECURSIVE MapSetAllList(_, _)
MapSetAllList(entries, accounts) ==
  IF entries = <<>> THEN accounts
  ELSE LET id == trim(Head(entries))
       IN  IF id # <<>>
           THEN MapSetAllList(Tail(entries), Append(accounts, id))
           ELSE MapSetAllList(Tail(entries), accounts)

(***************************************************************************)
(* getConfiguredAccounts: a Map keeps the first insertion position of a   *)
(* key, so the result is the list of distinct trimmed non-blank entries   *)
(* in order of first appearance; null when there is none.                 *)
(***************************************************************************)
RECURSIVE MapSetAll(_, _)
MapSetAll(entries, accounts) ==
  IF entries = <<>> THEN accounts
  ELSE LET id == trim(Head(entries))
       IN  IF id # <<>> /\ ~SeqContains(accounts, id)
           THEN MapSetAll(Tail(entries), Append(accounts, id))
           ELSE MapSetAll(Tail(entries), accounts)

getConfiguredAccounts(raw) ==
  IF trim(raw) = <<>> THEN [isNull |-> TRUE, ids |-> <<>>]
  ELSE LET accounts == MapSetAll(split(raw), <<>>)
       IN  IF Len(accounts) > 0 THEN [isNull |-> FALSE, ids |-> accounts]
           ELSE [isNull |-> TRUE, ids |-> <<>>]

\* organization mode whenever CHILD_ACCOUNTS is set
shouldUseOrganizationModeIfSet(raw) == raw # <<>>

shouldUseOrganizationMode(raw) ==
  LET accounts == getConfiguredAccounts(raw)
  IN  ~accounts.isNull /\ Len(accounts.ids) > 0


(***************************************************************************)
(* State.                                                                  *)
(***************************************************************************)
VARIABLES
  \* process.env.CHILD_ACCOUNTS, process.env.ENABLE_ORGANIZATION_MODE and the
  \* module-level cachedAccountId
  CHILD_ACCOUNTS, ENABLE_ORGANIZATION_MODE, cachedAccountId,
  \* detectUnusedResources: position and locals
  pc, parentAccountId, useOrgMode, orgAccounts, acctIdx, credentials,
  allUnusedResources, totalErrors,
  \* scanAccountRegions: arguments and locals of the call in progress
  accountId, accountName, resources, errors, i, running, batchResults,
  \* checker calls of a region whose scan already ended by a rejection
  strays,
  \* history: per-account state, region scans started in this account scan,
  \* batch sizes of this account scan, (account, credentials) pairs checkers
  \* were called with, what checkers returned, the (account, region) scans
  \* whose catch block ran
  acctState, scans, batchLog, invoked, returned, caught,
  \* budget counters of the environment
  found, escapes,
  \* one checker call looked at on its own: which checker, what the service
  \* calls it makes answer, its local list unusedResources, its position
  checker, answers, unusedResources, at,
  \* the metric queries the checker call has issued: (resource id, metric)
  metricQueries,
  \* the clock, in milliseconds since the first checker call, and what the
  \* earlier calls of the checker returned
  now, earlier,
  \* the Lambda handler of one report: the event's type, the webhook setting,
  \* the handler's position, the state of the promises it gathers, the
  \* messages posted to Slack and those Slack accepted
  event, SLACK_WEBHOOK_URL, handlerAt, calls, posted, accepted,
  \* one call of the metric gateway looked at on its own: the statistic
  \* asked for, what CloudWatch answers, the gateway's position and what it
  \* returned
  statistic, metricResponse, gatewayAt, metricValue,
  \* the calls of getAccountId made by the handler invocations of one
  \* container: how many invocations began, whether the current one began
  \* with an empty cache, the state of the call of each caller, and the
  \* GetCallerIdentity requests the current invocation has sent
  invocations, coldStart, lookups, identityRequests

\* the environment variables of the deployment; no statement assigns them
environment == <<CHILD_ACCOUNTS, ENABLE_ORGANIZATION_MODE>>
idVars == <<cachedAccountId, parentAccountId>>
loopVars == <<useOrgMode, orgAccounts, acctIdx, credentials>>
totals == <<allUnusedResources, totalErrors>>
scanLocals == <<accountId, accountName, resources, errors, i, running,
                batchResults>>
scanHistory == <<scans, batchLog, invoked>>
checkerHistory == <<returned, caught, found, escapes>>

checkerCall == <<checker, answers, unusedResources, at, metricQueries>>
clock == <<now, earlier>>
report == <<event, SLACK_WEBHOOK_URL, handlerAt, calls, posted, accepted>>
gateway == <<statistic, metricResponse, gatewayAt, metricValue>>
identity == <<invocations, coldStart, lookups, identityRequests>>

orchVars == <<environment, pc, idVars, loopVars, totals, scanLocals, strays,
              acctState, scanHistory, checkerHistory>>

\* what the actions of the orchestrator, and those of a checker, leave alone
beyondScan == <<checkerCall, clock, report, gateway, identity>>
beyondChecker == <<orchVars, clock, report, gateway, identity>>
beyondReport == <<orchVars, checkerCall, clock, gateway, identity>>
beyondGateway == <<orchVars, checkerCall, clock, report, identity>>
beyondIdentity ==
  <<environment, pc, parentAccountId, loopVars, totals, scanLocals, strays,
    acctState, scanHistory, checkerHistory, checkerCall, clock, report,
    gateway>>

vars == <<orchVars, checkerCall, clock, report, gateway, identity>>

(***************************************************************************)
(* Values.                                                                 *)
(***************************************************************************)
\* what CloudWatch answers to a metric request: the request fails, or one
\* datapoint per day, each the value of the requested statistic
Failure == [fails |-> TRUE, Datapoints |-> <<>>]

Datapoints(dps) == [fails |-> FALSE, Datapoints |-> dps]

\* the temporary credentials AssumeRole issues for account a
CredentialsOf(a) == <<"credentials-of">> \o a

\* an UnusedResource as a checker returns it: no account fields yet.
\* origin is history: the account whose scan called the checker.
Resource(origin, region) ==
  [region |-> region, origin |-> origin, accountId |-> Null,
   accountName |-> Null]

RECURSIVE Repeat(_, _)
Repeat(x, n) == IF n = 0 THEN <<>> ELSE <<x>> \o Repeat(x, n - 1)

Min(a, b) == IF a < b THEN a ELSE b

(***************************************************************************)
(* scanAccountRegions, piece by piece.                                     *)
(***************************************************************************)
\* mutant: a slice that takes one region too many
BatchOfInclusive(idx) ==
  {r \in AWS_REGIONS : idx < r /\ r <= idx + batchSize + 1}

\* AWS_REGIONS.slice(idx, idx + batchSize), idx counted from 0
BatchOf(idx) == {r \in AWS_REGIONS : idx < r /\ r <= idx + batchSize}

\* the for-loop's step: i += batchSize
NextBatchIndex(idx) == idx + batchSize

\* the loop condition i < AWS_REGIONS.length
MoreBatches(idx) == idx < NumRegions

\* What one region's closure returns.  The checkers' lists are pushed into
\* results only after the inner Promise.all resolved; when it rejects the
\* catch block counts the error and results is still empty.
RegionResults(rejected, lists) == IF rejected THEN <<>> ELSE lists

\* errors++ in the catch block of a region closure
RegionErrors(errs, rejected) == IF rejected THEN errs + 1 ELSE errs

\* batchResults.flat(): the regions' lists in batch order
RECURSIVE Flat(_, _)
Flat(results, batch) ==
  IF batch = {} THEN <<>>
  ELSE LET r == CHOOSE x \in batch : \A y \in batch : x <= y
       IN  results[r] \o Flat(results, batch \ {r})

\* mutant: resources = batchResults.flat()
PushBatchReplace(res, results, batch) == Flat(results, batch)

\* resources.push(...batchResults.flat())
PushBatch(res, results, batch) == res \o Flat(results, batch)

\* the tagging loop left out
TagNone(res, id, name) == res

\* the tagging loop after the last batch
TagAll(res, id, name) ==
  [k \in 1 .. Len(res) |->
     [res[k] EXCEPT !.accountId = id, !.accountName = name]]

(***************************************************************************)
(* detectUnusedResources, piece by piece.                                  *)
(***************************************************************************)
\* mutant: allUnusedResources = resources
MergeAccountReplace(all, res) == res

\* allUnusedResources.push(...resources)
MergeAccount(all, res) == all \o res

\* the account's error count assigned, not added
AddErrorsReplace(total, errs) == errs

\* totalErrors += errors
AddErrors(total, errs) == total + errs

\* totalErrors++ when assumeRole returned null
CountSkip(total) == total + 1

\* mutant: break instead of continue
AfterSkipBreak(idx, n) == n + 1

\* the skipped account tried again
AfterSkipRetry(idx, n) == idx

\* continue: the loop goes on with the next of the n accounts
AfterSkipIndex(idx, n) == idx + 1

\* mutant: the loop steps over an entry
NextAccountIndexSkip(idx) == idx + 2

\* the for-of loop takes the map's entries one by one, in insertion order
NextAccountIndex(idx) == idx + 1

\* the two fallback branches left out: only configured accounts are scanned
AccountsToScanConfigured(org, raw, parent) == getConfiguredAccounts(raw).ids

\* the accounts the run iterates: the configured map in organization mode,
\* the caller's account alone otherwise
AccountsToScan(org, raw, parent) ==
  IF org /\ ~getConfiguredAccounts(raw).isNull
        /\ Len(getConfiguredAccounts(raw).ids) > 0
  THEN getConfiguredAccounts(raw).ids
  ELSE <<parent>>

\* the comparison with parentAccountId left out: every account of the
\* organization branch assumes a role
UsesAmbientNever(org, acct, parent) == ~org

\* if (acctId === parentAccountId): default credentials, no assumeRole.
\* The two single-account branches pass no credentials at all.
UsesAmbient(org, acct, parent) == ~org \/ acct = parent

Count(q, P(_)) == Cardinality({k \in 1 .. Len(q) : P(q[k])})


Range(q) == {q[k] : k \in 1 .. Len(q)}

CurrentAccount == orgAccounts[acctIdx]

\* regions of an account scan whose closures have not returned, and checker
\* calls that have not returned
RegionsInFlight == Cardinality(running)
CheckersInFlight ==
  NumCheckers * Cardinality(running) + (NumCheckers - 1) * Cardinality(strays)

\* the callers of getAccountId are not looked at on their own
NoLookup ==
  /\ invocations = 0
  /\ coldStart = FALSE
  /\ lookups = <<>>
  /\ identityRequests = 0

\* the metric gateway is not looked at on its own
NoMetricQuery ==
  /\ statistic = "none"
  /\ metricResponse = Failure
  /\ gatewayAt = "idle"
  /\ metricValue = <<>>

\* no report is being generated: the handler has not been invoked
NoReport ==
  /\ event = "none"
  /\ SLACK_WEBHOOK_URL = ""
  /\ handlerAt = "idle"
  /\ calls = <<>>
  /\ posted = <<>>
  /\ accepted = <<>>

(***************************************************************************)
(* Init: the module was just loaded; nothing is cached and                *)
(* detectUnusedResources has not been called.                              *)
(***************************************************************************)
Init ==
  /\ \E env \in Environments :
       /\ CHILD_ACCOUNTS = env[1]
       /\ ENABLE_ORGANIZATION_MODE = env[2]
  /\ cachedAccountId = Null
  /\ pc = "idle"
  /\ parentAccountId = Null
  /\ useOrgMode = FALSE
  /\ orgAccounts = <<>>
  /\ acctIdx = 0
  /\ credentials = Null
  /\ allUnusedResources = <<>>
  /\ totalErrors = 0
  /\ accountId = Null
  /\ accountName = Null
  /\ resources = <<>>
  /\ errors = 0
  /\ i = 0
  /\ running = {}
  /\ batchResults = <<>>
  /\ strays = {}
  /\ acctState = <<>>
  /\ scans = [r \in AWS_REGIONS |-> 0]
  /\ batchLog = <<>>
  /\ invoked = {}
  /\ returned = {}
  /\ caught = {}
  /\ found = 0
  /\ escapes = 0
  /\ checker = "none"
  /\ answers = <<>>
  /\ unusedResources = <<>>
  /\ metricQueries = {}
  /\ at = "idle"
  /\ now = 0
  /\ earlier = <<>>
  /\ NoReport
  /\ NoMetricQuery
  /\ NoLookup

(***************************************************************************)
(* detectUnusedResources                                                   *)
(***************************************************************************)
\* the call, up to the await of getAccountId(): a cached id is returned
\* without a request, otherwise GetCallerIdentity is sent
Detect ==
  /\ pc = "idle"
  /\ IF cachedAccountId # Null
     THEN /\ parentAccountId' = cachedAccountId
          /\ pc' = "mode"
     ELSE /\ parentAccountId' = parentAccountId
          /\ pc' = "identity"
  /\ UNCHANGED beyondScan
  /\ UNCHANGED <<environment, cachedAccountId, loopVars, totals, scanLocals,
                 strays, acctState, scanHistory, checkerHistory>>

\* GetCallerIdentity answers: response.Account || "Unknown" is cached
IdentityReturns ==
  /\ pc = "identity"
  /\ \E acct \in {CallerAccount, Unknown} :
       /\ cachedAccountId' = acct
       /\ parentAccountId' = acct
  /\ pc' = "mode"
  /\ UNCHANGED beyondScan
  /\ UNCHANGED <<environment, loopVars, totals, scanLocals, strays,
                 acctState, scanHistory, checkerHistory>>

\* GetCallerIdentity fails: getAccountId has no try/catch and the await in
\* detectUnusedResources is outside any, so the rejection reaches the caller
IdentityFails ==
  /\ pc = "identity"
  /\ pc' = "thrown"
  /\ UNCHANGED beyondScan
  /\ UNCHANGED <<environment, idVars, loopVars, totals, scanLocals, strays,
                 acctState, scanHistory, checkerHistory>>

\* useOrgMode = shouldUseOrganizationMode() and the choice of the branch
ChooseMode ==
  /\ pc = "mode"
  /\ useOrgMode' = shouldUseOrganizationMode(CHILD_ACCOUNTS)
  /\ orgAccounts' = AccountsToScan(useOrgMode', CHILD_ACCOUNTS, parentAccountId)
  /\ acctState' = [a \in Range(orgAccounts') |-> "pending"]
  /\ acctIdx' = 1
  /\ pc' = "next"
  /\ UNCHANGED beyondScan
  /\ UNCHANGED <<environment, idVars, credentials, totals, scanLocals,
                 strays, scanHistory, checkerHistory>>

\* the organization branch is the one whose loop compares ids and assumes roles
OrgBranch ==
  /\ useOrgMode
  /\ ~getConfiguredAccounts(CHILD_ACCOUNTS).isNull
  /\ Len(getConfiguredAccounts(CHILD_ACCOUNTS).ids) > 0

\* head of the account loop (or the single scan of the other branches):
\* let credentials; ambient for the caller's account, else assumeRole is sent
NextAccount ==
  /\ pc = "next"
  /\ acctIdx <= Len(orgAccounts)
  /\ IF UsesAmbient(OrgBranch, CurrentAccount, parentAccountId)
     THEN /\ acctState' = [acctState EXCEPT ![CurrentAccount] = "ambient"]
          /\ pc' = "call"
     ELSE /\ acctState' = [acctState EXCEPT ![CurrentAccount] = "assuming-role"]
          /\ pc' = "assuming"
  /\ credentials' = Null
  /\ UNCHANGED beyondScan
  /\ UNCHANGED <<environment, idVars, useOrgMode, orgAccounts, acctIdx,
                 totals, scanLocals, strays, scanHistory, checkerHistory>>

\* assumeRole resolves with credentials
AssumeRoleReturns ==
  /\ pc = "assuming"
  /\ credentials' = CredentialsOf(CurrentAccount)
  /\ pc' = "call"
  /\ UNCHANGED beyondScan
  /\ UNCHANGED <<environment, idVars, useOrgMode, orgAccounts, acctIdx,
                 totals, scanLocals, strays, acctState, scanHistory,
                 checkerHistory>>

\* assumeRole resolves with null (STS failed or sent no credentials):
\* totalErrors++ and continue
AssumeRoleFails ==
  /\ pc = "assuming"
  /\ totalErrors' = CountSkip(totalErrors)
  /\ acctState' = [acctState EXCEPT ![CurrentAccount] = "skipped"]
  /\ acctIdx' = AfterSkipIndex(acctIdx, Len(orgAccounts))
  /\ pc' = "next"
  /\ UNCHANGED beyondScan
  /\ UNCHANGED <<environment, idVars, useOrgMode, orgAccounts, credentials,
                 allUnusedResources, scanLocals, strays, scanHistory,
                 checkerHistory>>

\* the call scanAccountRegions(dateRange, id, name, credentials): its locals
CallScan ==
  /\ pc = "call"
  /\ accountId' = CurrentAccount
  /\ accountName' = CurrentAccount
  /\ resources' = <<>>
  /\ errors' = 0
  /\ i' = 0
  /\ running' = {}
  /\ batchResults' = <<>>
  /\ scans' = [r \in AWS_REGIONS |-> 0]
  /\ batchLog' = <<>>
  /\ acctState' = [acctState EXCEPT ![CurrentAccount] = "scanning"]
  /\ pc' = "batch"
  /\ UNCHANGED beyondScan
  /\ UNCHANGED <<environment, idVars, loopVars, totals, strays, invoked,
                 checkerHistory>>

\* after the loop (or the single scan): summary logging and return
Return ==
  /\ pc = "next"
  /\ acctIdx > Len(orgAccounts)
  /\ pc' = "returned"
  /\ UNCHANGED beyondScan
  /\ UNCHANGED <<environment, idVars, loopVars, totals, scanLocals, strays,
                 acctState, scanHistory, checkerHistory>>

(***************************************************************************)
(* scanAccountRegions                                                      *)
(*                                                                         *)
(* A checker keeps every await inside its try block; only the client      *)
(* constructors before it can throw, so a checker's promise rejects, if   *)
(* at all, before its first request.  The region's inner Promise.all then *)
(* rejects at once and the catch block runs before any response arrives,  *)
(* while the region's other checker calls stay in flight.  The checkers   *)
(* of one region are otherwise collapsed into one step: Promise.all shows *)
(* the closure nothing before the last of them has returned.              *)
(***************************************************************************)
RECURSIVE CatchAll(_, _)
CatchAll(errs, n) ==
  IF n = 0 THEN errs ELSE RegionErrors(CatchAll(errs, n - 1), TRUE)

\* one loop iteration up to await Promise.all(batch.map(...)): every region
\* closure of the batch is called, each calls its 16 checkers
StartBatch ==
  /\ pc = "batch"
  /\ MoreBatches(i)
  /\ \E rejected \in SUBSET (BatchOf(i) \cap InventoryRegions) :
       /\ Cardinality(rejected) <= MaxEscapes - escapes
       /\ running' = BatchOf(i) \ rejected
       /\ batchResults' = [r \in rejected |-> RegionResults(TRUE, <<>>)]
       /\ errors' = CatchAll(errors, Cardinality(rejected))
       /\ strays' = strays \cup
                      {[acct |-> accountId, region |-> r] : r \in rejected}
       /\ caught' = caught \cup
                      {[acct |-> accountId, region |-> r] : r \in rejected}
       /\ escapes' = escapes + Cardinality(rejected)
  /\ scans' = [r \in AWS_REGIONS |->
                 IF r \in BatchOf(i) THEN scans[r] + 1 ELSE scans[r]]
  /\ batchLog' = Append(batchLog, Cardinality(BatchOf(i)))
  /\ invoked' = invoked \cup {[acct |-> accountId, creds |-> credentials]}
  /\ pc' = "awaitBatch"
  /\ UNCHANGED beyondScan
  /\ UNCHANGED <<environment, idVars, loopVars, totals, accountId,
                 accountName, resources, i, acctState, returned, found>>

\* the most resources the checkers of a region may still return
MayReturn(region) ==
  IF region \in InventoryRegions
  THEN Min(MaxPerRegion, MaxFound - found) ELSE 0

\* what the checkers of (acct, region) returned, kept when it is not nothing
Returned(acct, region, n) ==
  IF n = 0 THEN {} ELSE {[acct |-> acct, region |-> region, n |-> n]}

\* the last checker of a region returns: the inner Promise.all resolves, the
\* closure pushes the sixteen lists into results and returns them
RegionSettles ==
  /\ pc = "awaitBatch"
  /\ \E r \in running :
       \E n \in 0 .. MayReturn(r) :
         /\ batchResults' =
              (r :> RegionResults(FALSE, Repeat(Resource(accountId, r), n)))
                @@ batchResults
         /\ errors' = RegionErrors(errors, FALSE)
         /\ running' = running \ {r}
         /\ returned' = returned \cup Returned(accountId, r, n)
         /\ found' = found + n
  /\ UNCHANGED beyondScan
  /\ UNCHANGED <<environment, pc, idVars, loopVars, totals, accountId,
                 accountName, resources, i, strays, acctState, scanHistory,
                 caught, escapes>>

\* the remaining checkers of a region whose Promise.all already rejected
\* return: nothing awaits them, their lists are dropped
StraySettles ==
  /\ \E s \in strays :
       \E n \in 0 .. MayReturn(s.region) :
         /\ strays' = strays \ {s}
         /\ returned' = returned \cup Returned(s.acct, s.region, n)
         /\ found' = found + n
  /\ UNCHANGED beyondScan
  /\ UNCHANGED <<environment, pc, idVars, loopVars, totals, scanLocals,
                 acctState, scanHistory, caught, escapes>>

\* the outer Promise.all resolves: resources.push(...batchResults.flat())
\* and the loop steps to the next batch
BatchDone ==
  /\ pc = "awaitBatch"
  /\ running = {}
  /\ resources' = PushBatch(resources, batchResults, BatchOf(i))
  /\ i' = NextBatchIndex(i)
  /\ batchResults' = <<>>
  /\ pc' = "batch"
  /\ UNCHANGED beyondScan
  /\ UNCHANGED <<environment, idVars, loopVars, totals, accountId,
                 accountName, errors, running, strays, acctState, scanHistory,
                 checkerHistory>>

\* after the last batch: the tagging loop, return { resources, errors }, and
\* in the caller the merge into allUnusedResources and totalErrors
ScanReturns ==
  /\ pc = "batch"
  /\ ~MoreBatches(i)
  /\ resources' = TagAll(resources, accountId, accountName)
  /\ allUnusedResources' = MergeAccount(allUnusedResources, resources')
  /\ totalErrors' = AddErrors(totalErrors, errors)
  /\ acctState' = [acctState EXCEPT ![accountId] = "done"]
  /\ acctIdx' = NextAccountIndex(acctIdx)
  /\ pc' = "next"
  /\ UNCHANGED beyondScan
  /\ UNCHANGED <<environment, idVars, useOrgMode, orgAccounts, credentials,
                 accountId, accountName, errors, i, running, batchResults,
                 strays, scanHistory, checkerHistory>>

Next ==
  \/ Detect
  \/ IdentityReturns
  \/ IdentityFails
  \/ ChooseMode
  \/ NextAccount
  \/ AssumeRoleReturns
  \/ AssumeRoleFails
  \/ CallScan
  \/ StartBatch
  \/ RegionSettles
  \/ StraySettles
  \/ BatchDone
  \/ ScanReturns
  \/ Return

Spec == Init /\ [][Next]_vars

(***************************************************************************)
(* The same run under fairness: the event loop runs a continuation that is *)
(* ready, and every external call in flight (GetCallerIdentity, AssumeRole,*)
(* the inventory and metric calls behind a checker) settles, by returning  *)
(* or by failing.  detectUnusedResources sets no timeout of its own.       *)
(***************************************************************************)
SpecLive == Init /\ [][Next]_vars /\ WF_vars(Next)


(***************************************************************************)
(* The resource checkers, each looked at on its own.                       *)
(*                                                                         *)
(* A response of GetMetricStatistics is a failure or the daily datapoints  *)
(* of the requested statistic.  A metric result is kept as an exact        *)
(* fraction [num, den] with den > 0.  The resource id of an inventory      *)
(* entry is its position in the listing.                                   *)
(***************************************************************************)
CPU_THRESHOLD == 5

NETWORK_THRESHOLD == 1000

CONNECTIONS_THRESHOLD == 1

SNAPSHOT_AGE_THRESHOLD_DAYS == 90

\* the responses the environment gives to a metric request
Responses ==
  { Failure, Datapoints(<<>>), Datapoints(<<0>>), Datapoints(<<0, 1>>),
    Datapoints(<<3>>), Datapoints(<<2000>>) }

Num(n) == [num |-> n, den |-> 1]

RECURSIVE reduce(_)
reduce(dps) == IF dps = <<>> THEN 0 ELSE Head(dps) + reduce(Tail(dps))

\* the total returned where the mean is asked for
getCloudWatchMetricTotal(response) ==
  IF response.fails THEN Num(-1)
  ELSE IF Len(response.Datapoints) > 0
       THEN Num(reduce(response.Datapoints))
       ELSE Num(-2)

\* mean of the daily averages; -2 without datapoints, -1 when the request fails
getCloudWatchMetric(response) ==
  IF response.fails THEN Num(-1)
  ELSE IF Len(response.Datapoints) > 0
       THEN [num |-> reduce(response.Datapoints),
             den |-> Len(response.Datapoints)]
       ELSE Num(-2)

\* total of the daily sums; -2 without datapoints, -1 when the request fails
getCloudWatchSumMetric(response) ==
  IF response.fails THEN Num(-1)
  ELSE IF Len(response.Datapoints) > 0
       THEN Num(reduce(response.Datapoints))
       ELSE Num(-2)

\* x >= 0 with the guard left out
NonNegativeUnguarded(x) == TRUE

\* x >= 0
NonNegative(x) == x.num >= 0

\* x < t
LessThan(x, t) == x.num < t * x.den

\* x === 0
IsZero(x) == x.num = 0

\* an entry pushed into unusedResources; shown holds the number of days the
\* reason string of an old snapshot or backup interpolates, else nothing
UnusedResource(service, id, reason, shown) ==
  [service |-> service, resourceId |-> id, reason |-> reason, shown |-> shown]

\* one loop iteration either pushes entries or throws into the checker's catch
Pushes(list) == [threw |-> FALSE, pushed |-> list]

Throws == [threw |-> TRUE, pushed |-> <<>>]

\* the loop over a listing: a throw ends it, what was pushed before is kept
RECURSIVE Iterate(_, _)
Iterate(steps, k) ==
  IF k > Len(steps) THEN <<>>
  ELSE IF steps[k].threw THEN <<>>
  ELSE steps[k].pushed \o Iterate(steps, k + 1)

\* the queries of the iterations the loop gets to: asked[k] are those of
\* iteration k, none of which follows the request that makes it throw
RECURSIVE IterateAsks(_, _, _)
IterateAsks(steps, asked, k) ==
  IF k > Len(steps) THEN {}
  ELSE asked[k] \cup
         (IF steps[k].threw THEN {} ELSE IterateAsks(steps, asked, k + 1))

\* await getCloudWatchMetric / getCloudWatchSumMetric for a metric of id
Query(id, metric) == {<<id, metric>>}

\* listings of at most two entries
UpToTwo(S) ==
  {<<>>} \cup {<<x>> : x \in S} \cup {<<p[1], p[2]>> : p \in S \X S}

\* what a list request answers: a failure or the entries
Listing(S) ==
  {[fails |-> TRUE, items |-> <<>>]} \cup
  {[fails |-> FALSE, items |-> l] : l \in UpToTwo(S)}

(***************************************************************************)
(* checkEC2Instances                                                       *)
(***************************************************************************)
Instances ==
  [CPUUtilization : Responses, NetworkIn : Responses, NetworkOut : Responses]

EC2Instance(instance, instanceId) ==
  LET cpuAvg == getCloudWatchMetric(instance.CPUUtilization)
      networkIn == getCloudWatchMetric(instance.NetworkIn)
      networkOut == getCloudWatchMetric(instance.NetworkOut)
  IN  IF NonNegative(cpuAvg) /\ LessThan(cpuAvg, CPU_THRESHOLD)
      THEN <<UnusedResource("Amazon EC2", instanceId, "Low CPU", Null)>>
      ELSE IF /\ NonNegative(networkIn)
              /\ NonNegative(networkOut)
              /\ LessThan(networkIn, NETWORK_THRESHOLD)
              /\ LessThan(networkOut, NETWORK_THRESHOLD)
      THEN <<UnusedResource("Amazon EC2", instanceId, "No network traffic",
                            Null)>>
      ELSE <<>>

\* the metric queries of one iteration
EC2InstanceAsks(instance, instanceId) ==
  LET cpuAvg == getCloudWatchMetric(instance.CPUUtilization)
  IN  Query(instanceId, "CPUUtilization") \cup
        (IF NonNegative(cpuAvg) /\ LessThan(cpuAvg, CPU_THRESHOLD)
         THEN {}
         ELSE Query(instanceId, "NetworkIn") \cup
                Query(instanceId, "NetworkOut"))

checkEC2Instances ==
  /\ checker = "checkEC2Instances"
  /\ at = "called"
  /\ unusedResources' =
       IF answers.fails THEN <<>>
       ELSE Iterate([k \in DOMAIN answers.items |->
                       Pushes(EC2Instance(answers.items[k], k))], 1)
  /\ at' = "returned"
  /\ metricQueries' =
       IF answers.fails THEN {}
       ELSE IterateAsks([k \in DOMAIN answers.items |->
                           Pushes(EC2Instance(answers.items[k], k))],
                        [k \in DOMAIN answers.items |->
                           EC2InstanceAsks(answers.items[k], k)], 1)
  /\ UNCHANGED <<checker, answers>>
  /\ UNCHANGED beyondChecker

(***************************************************************************)
(* checkEBSVolumes                                                         *)
(***************************************************************************)
Volumes ==
  [Attachments : {0, 1}, VolumeReadOps : Responses, VolumeWriteOps : Responses]

\* only the read operations tested
EBSVolumeReadOnly(volume, volumeId) ==
  LET readOps == getCloudWatchMetric(volume.VolumeReadOps)
  IN  IF volume.Attachments = 0
      THEN <<UnusedResource("Amazon EBS", volumeId, "Unattached volume",
                            Null)>>
      ELSE IF NonNegative(readOps) /\ IsZero(readOps)
      THEN <<UnusedResource("Amazon EBS", volumeId, "No I/O operations",
                            Null)>>
      ELSE <<>>

EBSVolume(volume, volumeId) ==
  LET readOps == getCloudWatchMetric(volume.VolumeReadOps)
      writeOps == getCloudWatchMetric(volume.VolumeWriteOps)
  IN  IF volume.Attachments = 0
      THEN <<UnusedResource("Amazon EBS", volumeId, "Unattached volume",
                            Null)>>
      ELSE IF /\ NonNegative(readOps)
              /\ NonNegative(writeOps)
              /\ IsZero(readOps)
              /\ IsZero(writeOps)
      THEN <<UnusedResource("Amazon EBS", volumeId, "No I/O operations",
                            Null)>>
      ELSE <<>>

\* the metric queries of one iteration
EBSVolumeAsks(volume, volumeId) ==
  IF volume.Attachments = 0 THEN {}
  ELSE Query(volumeId, "VolumeReadOps") \cup Query(volumeId, "VolumeWriteOps")

checkEBSVolumes ==
  /\ checker = "checkEBSVolumes"
  /\ at = "called"
  /\ unusedResources' =
       IF answers.fails THEN <<>>
       ELSE Iterate([k \in DOMAIN answers.items |->
                       Pushes(EBSVolume(answers.items[k], k))], 1)
  /\ at' = "returned"
  /\ metricQueries' =
       IF answers.fails THEN {}
       ELSE IterateAsks([k \in DOMAIN answers.items |->
                           Pushes(EBSVolume(answers.items[k], k))],
                        [k \in DOMAIN answers.items |->
                           EBSVolumeAsks(answers.items[k], k)], 1)
  /\ UNCHANGED <<checker, answers>>
  /\ UNCHANGED beyondChecker

(***************************************************************************)
(* Snapshot and backup checkers.  A creation time is absent or lies        *)
(* days * 86400000 + ms milliseconds before the first call of the checker, *)
(* 0 <= ms < 86400000; the clock advances by a few milliseconds at most,   *)
(* so ms + now stays below a day.                                          *)
(***************************************************************************)
NoTime == [present |-> FALSE, days |-> 0, ms |-> 0]

Times ==
  {NoTime} \cup
  [present : {TRUE},
   days : { SNAPSHOT_AGE_THRESHOLD_DAYS - 1, SNAPSHOT_AGE_THRESHOLD_DAYS,
            SNAPSHOT_AGE_THRESHOLD_DAYS + 1 },
   ms : {0, 1}]

\* time ? now.getTime() - time.getTime() : 0
AgeMs(time) ==
  IF time.present THEN [days |-> time.days, ms |-> time.ms + now]
  ELSE [days |-> 0, ms |-> 0]

\* Math.floor(ageMs / (24 * 60 * 60 * 1000))
AgeDays(ageMs) == ageMs.days

\* ageMs > thresholdDays * 24 * 60 * 60 * 1000
ExceedsThreshold(ageMs, thresholdDays) ==
  \/ ageMs.days > thresholdDays
  \/ ageMs.days = thresholdDays /\ ageMs.ms > 0

\* both branches taken on their own, not as if / else if
PushBoth(isOrphaned, orphaned, isOld, old) ==
  (IF isOrphaned THEN <<orphaned>> ELSE <<>>) \o
  (IF isOld THEN <<old>> ELSE <<>>)

\* if (isOrphaned) push(orphaned) else if (isOld) push(old)
PushOrphanedElseOld(isOrphaned, orphaned, isOld, old) ==
  IF isOrphaned THEN <<orphaned>>
  ELSE IF isOld THEN <<old>>
  ELSE <<>>

\* what the snapshot listing and the listing of sources answer
SnapshotAnswers(S, ids) ==
  {[fails |-> TRUE, items |-> <<>>, existing |-> {}]} \cup
  [fails : {FALSE}, items : UpToTwo(S), existing : SUBSET ids]

(***************************************************************************)
(* checkEBSSnapshots                                                       *)
(***************************************************************************)
EBSSnapshots ==
  [State : {"completed", "pending"},
   VolumeId : {"", "vol-ffffffff", "vol-1"},
   StartTime : Times]

EBSSnapshot(snapshot, existingVolumeIds, snapshotId) ==
  LET volumeId == snapshot.VolumeId
      isOrphaned == /\ volumeId # ""
                    /\ volumeId # "vol-ffffffff"
                    /\ volumeId \notin existingVolumeIds
      snapshotAgeMs == AgeMs(snapshot.StartTime)
      snapshotAgeDays == AgeDays(snapshotAgeMs)
      isOld == ExceedsThreshold(snapshotAgeMs, SNAPSHOT_AGE_THRESHOLD_DAYS)
  IN  PushOrphanedElseOld(
        isOrphaned,
        UnusedResource("EBS Snapshot", snapshotId, "Orphaned", Null),
        isOld,
        UnusedResource("EBS Snapshot", snapshotId, "Old snapshot",
                       <<snapshotAgeDays>>))

checkEBSSnapshots ==
  /\ checker = "checkEBSSnapshots"
  /\ at = "called"
  /\ unusedResources' =
       IF answers.fails THEN <<>>
       ELSE Iterate([k \in DOMAIN answers.items |->
                       Pushes(EBSSnapshot(answers.items[k], answers.existing,
                                          k))], 1)
  /\ at' = "returned"
  /\ UNCHANGED <<checker, answers, metricQueries>>
  /\ UNCHANGED beyondChecker

(***************************************************************************)
(* checkRDSSnapshots                                                       *)
(***************************************************************************)
DBSnapshots ==
  [Status : {"available", "creating"},
   DBInstanceIdentifier : {"", "db-1"},
   SnapshotCreateTime : Times]

DBSnapshot(snapshot, existingDbIds, snapshotId) ==
  LET dbInstanceId == snapshot.DBInstanceIdentifier
      isOrphaned == dbInstanceId # "" /\ dbInstanceId \notin existingDbIds
      snapshotAgeMs == AgeMs(snapshot.SnapshotCreateTime)
      snapshotAgeDays == AgeDays(snapshotAgeMs)
      isOld == ExceedsThreshold(snapshotAgeMs, SNAPSHOT_AGE_THRESHOLD_DAYS)
  IN  IF snapshot.Status # "available" THEN <<>>
      ELSE PushOrphanedElseOld(
             isOrphaned,
             UnusedResource("RDS Snapshot", snapshotId, "Orphaned snapshot",
                            Null),
             isOld,
             UnusedResource("RDS Snapshot", snapshotId, "Old snapshot",
                            <<snapshotAgeDays>>))

checkRDSSnapshots ==
  /\ checker = "checkRDSSnapshots"
  /\ at = "called"
  /\ unusedResources' =
       IF answers.fails THEN <<>>
       ELSE Iterate([k \in DOMAIN answers.items |->
                       Pushes(DBSnapshot(answers.items[k], answers.existing,
                                         k))], 1)
  /\ at' = "returned"
  /\ UNCHANGED <<checker, answers, metricQueries>>
  /\ UNCHANGED beyondChecker

(***************************************************************************)
(* checkRDSClusterSnapshots                                                *)
(***************************************************************************)
DBClusterSnapshots ==
  [Status : {"available", "creating"},
   DBClusterIdentifier : {"", "cluster-1"},
   SnapshotCreateTime : Times]

DBClusterSnapshot(snapshot, existingClusterIds, snapshotId) ==
  LET clusterId == snapshot.DBClusterIdentifier
      isOrphaned == clusterId # "" /\ clusterId \notin existingClusterIds
      snapshotAgeMs == AgeMs(snapshot.SnapshotCreateTime)
      snapshotAgeDays == AgeDays(snapshotAgeMs)
      isOld == ExceedsThreshold(snapshotAgeMs, SNAPSHOT_AGE_THRESHOLD_DAYS)
  IN  IF snapshot.Status # "available" THEN <<>>
      ELSE PushOrphanedElseOld(
             isOrphaned,
             UnusedResource("RDS Cluster Snapshot", snapshotId,
                            "Orphaned snapshot", Null),
             isOld,
             UnusedResource("RDS Cluster Snapshot", snapshotId,
                            "Old snapshot", <<snapshotAgeDays>>))

checkRDSClusterSnapshots ==
  /\ checker = "checkRDSClusterSnapshots"
  /\ at = "called"
  /\ unusedResources' =
       IF answers.fails THEN <<>>
       ELSE Iterate([k \in DOMAIN answers.items |->
                       Pushes(DBClusterSnapshot(answers.items[k],
                                                answers.existing, k))], 1)
  /\ at' = "returned"
  /\ UNCHANGED <<checker, answers, metricQueries>>
  /\ UNCHANGED beyondChecker

(***************************************************************************)
(* checkEFSBackups.  A resource ARN is kept as its last two path parts.    *)
(***************************************************************************)
RecoveryPoints ==
  [Status : {"COMPLETED", "PARTIAL"},
   ResourceArn : {<<>>, <<"file-system", "fs-1">>, <<"volume", "vol-1">>},
   CreationDate : Times]

\* the recovery points a vault lists, or the failure of the request
Vaults ==
  {[fails |-> TRUE, RecoveryPoints |-> <<>>]} \cup
  [fails : {FALSE},
   RecoveryPoints : {<<>>} \cup {<<rp>> : rp \in RecoveryPoints}]

\* resourceArn.match(/file-system\/(fs-[a-z0-9]+)/), "" without a match
efsIdMatch(resourceArn) ==
  IF Len(resourceArn) = 2 /\ resourceArn[1] = "file-system"
  THEN resourceArn[2] ELSE ""

RecoveryPoint(rp, existingEfsIds, shortId) ==
  LET efsId == efsIdMatch(rp.ResourceArn)
      isOrphaned == efsId # "" /\ efsId \notin existingEfsIds
      backupAgeMs == AgeMs(rp.CreationDate)
      backupAgeDays == AgeDays(backupAgeMs)
      isOld == ExceedsThreshold(backupAgeMs, SNAPSHOT_AGE_THRESHOLD_DAYS)
  IN  IF rp.Status # "COMPLETED" THEN <<>>
      ELSE PushOrphanedElseOld(
             isOrphaned,
             UnusedResource("EFS Backup", shortId, "Orphaned", Null),
             isOld,
             UnusedResource("EFS Backup", shortId, "Old backup",
                            <<backupAgeDays>>))

\* one vault: its recovery points are listed, then each is looked at
BackupVault(vault, existingEfsIds, v) ==
  IF vault.fails THEN Throws
  ELSE Pushes(Iterate([k \in DOMAIN vault.RecoveryPoints |->
                         Pushes(RecoveryPoint(vault.RecoveryPoints[k],
                                              existingEfsIds, <<v, k>>))], 1))

checkEFSBackups ==
  /\ checker = "checkEFSBackups"
  /\ at = "called"
  /\ unusedResources' =
       IF answers.fails THEN <<>>
       ELSE Iterate([v \in DOMAIN answers.items |->
                       BackupVault(answers.items[v], answers.existing, v)], 1)
  /\ at' = "returned"
  /\ UNCHANGED <<checker, answers, metricQueries>>
  /\ UNCHANGED beyondChecker

(***************************************************************************)
(* checkRDSInstances                                                       *)
(***************************************************************************)
DBInstances ==
  [DBInstanceStatus : {"available", "stopped"},
   DatabaseConnections : Responses, CPUUtilization : Responses]

\* both tests applied, the continue after the first left out
DBInstanceBoth(instance, instanceId) ==
  LET connections == getCloudWatchMetric(instance.DatabaseConnections)
      cpuAvg == getCloudWatchMetric(instance.CPUUtilization)
  IN  IF instance.DBInstanceStatus # "available" THEN <<>>
      ELSE (IF /\ NonNegative(connections)
               /\ LessThan(connections, CONNECTIONS_THRESHOLD)
            THEN <<UnusedResource("Amazon RDS", instanceId, "No connections",
                                  Null)>>
            ELSE <<>>) \o
           (IF NonNegative(cpuAvg) /\ LessThan(cpuAvg, CPU_THRESHOLD)
            THEN <<UnusedResource("Amazon RDS", instanceId, "Low CPU", Null)>>
            ELSE <<>>)

DBInstance(instance, instanceId) ==
  LET connections == getCloudWatchMetric(instance.DatabaseConnections)
      cpuAvg == getCloudWatchMetric(instance.CPUUtilization)
  IN  IF instance.DBInstanceStatus # "available" THEN <<>>
      ELSE IF /\ NonNegative(connections)
              /\ LessThan(connections, CONNECTIONS_THRESHOLD)
      THEN <<UnusedResource("Amazon RDS", instanceId, "No connections",
                            Null)>>
      ELSE IF NonNegative(cpuAvg) /\ LessThan(cpuAvg, CPU_THRESHOLD)
      THEN <<UnusedResource("Amazon RDS", instanceId, "Low CPU", Null)>>
      ELSE <<>>

\* the metric queries of one iteration
DBInstanceAsks(instance, instanceId) ==
  LET connections == getCloudWatchMetric(instance.DatabaseConnections)
  IN  IF instance.DBInstanceStatus # "available" THEN {}
      ELSE Query(instanceId, "DatabaseConnections") \cup
             (IF /\ NonNegative(connections)
                 /\ LessThan(connections, CONNECTIONS_THRESHOLD)
              THEN {}
              ELSE Query(instanceId, "CPUUtilization"))

checkRDSInstances ==
  /\ checker = "checkRDSInstances"
  /\ at = "called"
  /\ unusedResources' =
       IF answers.fails THEN <<>>
       ELSE Iterate([k \in DOMAIN answers.items |->
                       Pushes(DBInstance(answers.items[k], k))], 1)
  /\ at' = "returned"
  /\ metricQueries' =
       IF answers.fails THEN {}
       ELSE IterateAsks([k \in DOMAIN answers.items |->
                           Pushes(DBInstance(answers.items[k], k))],
                        [k \in DOMAIN answers.items |->
                           DBInstanceAsks(answers.items[k], k)], 1)
  /\ UNCHANGED <<checker, answers>>
  /\ UNCHANGED beyondChecker

(***************************************************************************)
(* checkLoadBalancers                                                      *)
(***************************************************************************)
LoadBalancers ==
  [Type : {"application", "network"},
   RequestCount : Responses, ActiveFlowCount : Responses]

\* lb.Type === "network" ? "ActiveFlowCount" : "RequestCount"
metricName(lb) ==
  IF lb.Type = "network" THEN "ActiveFlowCount" ELSE "RequestCount"

LoadBalancer(lb, lbArn) ==
  LET requestCount == getCloudWatchSumMetric(lb[metricName(lb)])
  IN  IF NonNegative(requestCount) /\ IsZero(requestCount)
      THEN <<UnusedResource("Elastic Load Balancing", lbArn, "No traffic",
                            Null)>>
      ELSE <<>>

\* the metric queries of one iteration
LoadBalancerAsks(lb, lbArn) == Query(lbArn, metricName(lb))

checkLoadBalancers ==
  /\ checker = "checkLoadBalancers"
  /\ at = "called"
  /\ unusedResources' =
       IF answers.fails THEN <<>>
       ELSE Iterate([k \in DOMAIN answers.items |->
                       Pushes(LoadBalancer(answers.items[k], k))], 1)
  /\ at' = "returned"
  /\ metricQueries' =
       IF answers.fails THEN {}
       ELSE IterateAsks([k \in DOMAIN answers.items |->
                           Pushes(LoadBalancer(answers.items[k], k))],
                        [k \in DOMAIN answers.items |->
                           LoadBalancerAsks(answers.items[k], k)], 1)
  /\ UNCHANGED <<checker, answers>>
  /\ UNCHANGED beyondChecker

(***************************************************************************)
(* checkElasticIPs                                                         *)
(***************************************************************************)
Addresses == [InstanceId : {"", "i-1"}, NetworkInterfaceId : {"", "eni-1"}]

Address(address, allocationId) ==
  IF address.InstanceId = "" /\ address.NetworkInterfaceId = ""
  THEN <<UnusedResource("Amazon EC2 (EIP)", allocationId,
                        "Unattached Elastic IP", Null)>>
  ELSE <<>>

checkElasticIPs ==
  /\ checker = "checkElasticIPs"
  /\ at = "called"
  /\ unusedResources' =
       IF answers.fails THEN <<>>
       ELSE Iterate([k \in DOMAIN answers.items |->
                       Pushes(Address(answers.items[k], k))], 1)
  /\ at' = "returned"
  /\ UNCHANGED <<checker, answers, metricQueries>>
  /\ UNCHANGED beyondChecker

(***************************************************************************)
(* checkNATGateways                                                        *)
(***************************************************************************)
NatGateways == [BytesOutToDestination : Responses]

NatGateway(natGw, natGwId) ==
  LET bytesOut == getCloudWatchSumMetric(natGw.BytesOutToDestination)
  IN  IF NonNegative(bytesOut) /\ IsZero(bytesOut)
      THEN <<UnusedResource("NAT Gateway", natGwId, "No outbound traffic",
                            Null)>>
      ELSE <<>>

\* the metric queries of one iteration
NatGatewayAsks(natGw, natGwId) == Query(natGwId, "BytesOutToDestination")

checkNATGateways ==
  /\ checker = "checkNATGateways"
  /\ at = "called"
  /\ unusedResources' =
       IF answers.fails THEN <<>>
       ELSE Iterate([k \in DOMAIN answers.items |->
                       Pushes(NatGateway(answers.items[k], k))], 1)
  /\ at' = "returned"
  /\ metricQueries' =
       IF answers.fails THEN {}
       ELSE IterateAsks([k \in DOMAIN answers.items |->
                           Pushes(NatGateway(answers.items[k], k))],
                        [k \in DOMAIN answers.items |->
                           NatGatewayAsks(answers.items[k], k)], 1)
  /\ UNCHANGED <<checker, answers>>
  /\ UNCHANGED beyondChecker

(***************************************************************************)
(* checkEFSFileSystems                                                     *)
(***************************************************************************)
FileSystems == [ClientConnections : Responses]

FileSystem(fs, fsId) ==
  LET connections == getCloudWatchMetric(fs.ClientConnections)
  IN  IF NonNegative(connections) /\ IsZero(connections)
      THEN <<UnusedResource("Amazon EFS", fsId, "No client connections",
                            Null)>>
      ELSE <<>>

\* the metric queries of one iteration
FileSystemAsks(fs, fsId) == Query(fsId, "ClientConnections")

checkEFSFileSystems ==
  /\ checker = "checkEFSFileSystems"
  /\ at = "called"
  /\ unusedResources' =
       IF answers.fails THEN <<>>
       ELSE Iterate([k \in DOMAIN answers.items |->
                       Pushes(FileSystem(answers.items[k], k))], 1)
  /\ at' = "returned"
  /\ metricQueries' =
       IF answers.fails THEN {}
       ELSE IterateAsks([k \in DOMAIN answers.items |->
                           Pushes(FileSystem(answers.items[k], k))],
                        [k \in DOMAIN answers.items |->
                           FileSystemAsks(answers.items[k], k)], 1)
  /\ UNCHANGED <<checker, answers>>
  /\ UNCHANGED beyondChecker

(***************************************************************************)
(* checkEKSClusters: every listed cluster is described first               *)
(***************************************************************************)
EKSClusters ==
  {[fails |-> TRUE, status |-> "", cluster_node_count |-> Failure,
    cluster_cpu_utilization |-> Failure]} \cup
  [fails : {FALSE}, status : {"ACTIVE", "CREATING"},
   cluster_node_count : Responses, cluster_cpu_utilization : Responses]

EKSCluster(cluster, clusterName) ==
  LET nodeCount == getCloudWatchMetric(cluster.cluster_node_count)
      cpuAvg == getCloudWatchMetric(cluster.cluster_cpu_utilization)
  IN  IF cluster.fails THEN Throws
      ELSE IF cluster.status # "ACTIVE" THEN Pushes(<<>>)
      ELSE IF NonNegative(nodeCount) /\ IsZero(nodeCount)
      THEN Pushes(<<UnusedResource("Amazon EKS", clusterName,
                                   "No nodes in cluster", Null)>>)
      ELSE IF NonNegative(cpuAvg) /\ LessThan(cpuAvg, CPU_THRESHOLD)
      THEN Pushes(<<UnusedResource("Amazon EKS", clusterName, "Low CPU",
                                   Null)>>)
      ELSE Pushes(<<>>)

\* the metric queries of one iteration
EKSClusterAsks(cluster, clusterName) ==
  LET nodeCount == getCloudWatchMetric(cluster.cluster_node_count)
  IN  IF cluster.fails \/ cluster.status # "ACTIVE" THEN {}
      ELSE Query(clusterName, "cluster_node_count") \cup
             (IF NonNegative(nodeCount) /\ IsZero(nodeCount)
              THEN {}
              ELSE Query(clusterName, "cluster_cpu_utilization"))

checkEKSClusters ==
  /\ checker = "checkEKSClusters"
  /\ at = "called"
  /\ unusedResources' =
       IF answers.fails THEN <<>>
       ELSE Iterate([k \in DOMAIN answers.items |->
                       EKSCluster(answers.items[k], k)], 1)
  /\ at' = "returned"
  /\ metricQueries' =
       IF answers.fails THEN {}
       ELSE IterateAsks([k \in DOMAIN answers.items |->
                           EKSCluster(answers.items[k], k)],
                        [k \in DOMAIN answers.items |->
                           EKSClusterAsks(answers.items[k], k)], 1)
  /\ UNCHANGED <<checker, answers>>
  /\ UNCHANGED beyondChecker

(***************************************************************************)
(* checkECSClusters: the services of a cluster are listed, the first ten   *)
(* of them described.  fails: one of the two requests throws.              *)
(***************************************************************************)
Services ==
  [runningCount : {0, 1}, desiredCount : {0, 1}, CPUUtilization : Responses]

ECSClusters ==
  {[fails |-> TRUE, services |-> <<>>]} \cup
  [fails : {FALSE}, services : {<<>>} \cup {<<s>> : s \in Services}]

\* a service with running tasks whose CPU metric cannot be read
BusyService ==
  [runningCount |-> 1, desiredCount |-> 1, CPUUtilization |-> Failure]

\* the services of a cluster that has one service more than one
\* DescribeServices request takes
ManyServices == {Repeat(BusyService, 10) \o <<s>> : s \in Services}

ECSAnswers ==
  Listing(ECSClusters) \cup
  {[fails |-> FALSE, items |-> <<[fails |-> FALSE, services |-> l]>>] :
     l \in UpToTwo(Services) \cup ManyServices}

\* q.slice(from, to)
slice(q, from, to) == SubSeq(q, from + 1, Min(to, Len(q)))

ECSService(service, serviceArn) ==
  LET cpuAvg == getCloudWatchMetric(service.CPUUtilization)
  IN  IF service.runningCount = 0 /\ service.desiredCount = 0
      THEN <<UnusedResource("Amazon ECS", serviceArn, "No running tasks",
                            Null)>>
      ELSE IF service.runningCount > 0
      THEN IF NonNegative(cpuAvg) /\ LessThan(cpuAvg, CPU_THRESHOLD)
           THEN <<UnusedResource("Amazon ECS", serviceArn, "Low CPU", Null)>>
           ELSE <<>>
      ELSE <<>>

ECSCluster(cluster, c) ==
  LET described == slice(cluster.services, 0, 10)
  IN  IF cluster.fails THEN Throws
      ELSE IF Len(cluster.services) = 0
      THEN Pushes(<<UnusedResource("Amazon ECS", <<c, 0>>,
                                   "No services in cluster", Null)>>)
      ELSE Pushes(Iterate([j \in DOMAIN described |->
                             Pushes(ECSService(described[j], <<c, j>>))], 1))

\* the metric queries of one service, and of one cluster
ECSServiceAsks(service, serviceArn) ==
  IF service.runningCount = 0 /\ service.desiredCount = 0 THEN {}
  ELSE IF service.runningCount > 0
  THEN Query(serviceArn, "CPUUtilization")
  ELSE {}

ECSClusterAsks(cluster, c) ==
  LET described == slice(cluster.services, 0, 10)
  IN  IF cluster.fails THEN {}
      ELSE UNION {ECSServiceAsks(described[j], <<c, j>>) :
                    j \in DOMAIN described}

checkECSClusters ==
  /\ checker = "checkECSClusters"
  /\ at = "called"
  /\ unusedResources' =
       IF answers.fails THEN <<>>
       ELSE Iterate([c \in DOMAIN answers.items |->
                       ECSCluster(answers.items[c], c)], 1)
  /\ at' = "returned"
  /\ metricQueries' =
       IF answers.fails THEN {}
       ELSE IterateAsks([c \in DOMAIN answers.items |->
                           ECSCluster(answers.items[c], c)],
                        [c \in DOMAIN answers.items |->
                           ECSClusterAsks(answers.items[c], c)], 1)
  /\ UNCHANGED <<checker, answers>>
  /\ UNCHANGED beyondChecker

(***************************************************************************)
(* checkElastiCacheClusters                                                *)
(***************************************************************************)
CacheClusters ==
  [CacheClusterStatus : {"available", "creating"},
   CurrConnections : Responses, CPUUtilization : Responses]

CacheCluster(cluster, clusterId) ==
  LET connections == getCloudWatchMetric(cluster.CurrConnections)
      cpuAvg == getCloudWatchMetric(cluster.CPUUtilization)
  IN  IF cluster.CacheClusterStatus # "available" THEN <<>>
      ELSE IF /\ NonNegative(connections)
              /\ LessThan(connections, CONNECTIONS_THRESHOLD)
      THEN <<UnusedResource("Amazon ElastiCache", clusterId, "No connections",
                            Null)>>
      ELSE IF NonNegative(cpuAvg) /\ LessThan(cpuAvg, CPU_THRESHOLD)
      THEN <<UnusedResource("Amazon ElastiCache", clusterId, "Low CPU",
                            Null)>>
      ELSE <<>>

\* the metric queries of one iteration
CacheClusterAsks(cluster, clusterId) ==
  LET connections == getCloudWatchMetric(cluster.CurrConnections)
  IN  IF cluster.CacheClusterStatus # "available" THEN {}
      ELSE Query(clusterId, "CurrConnections") \cup
             (IF /\ NonNegative(connections)
                 /\ LessThan(connections, CONNECTIONS_THRESHOLD)
              THEN {}
              ELSE Query(clusterId, "CPUUtilization"))

checkElastiCacheClusters ==
  /\ checker = "checkElastiCacheClusters"
  /\ at = "called"
  /\ unusedResources' =
       IF answers.fails THEN <<>>
       ELSE Iterate([k \in DOMAIN answers.items |->
                       Pushes(CacheCluster(answers.items[k], k))], 1)
  /\ at' = "returned"
  /\ metricQueries' =
       IF answers.fails THEN {}
       ELSE IterateAsks([k \in DOMAIN answers.items |->
                           Pushes(CacheCluster(answers.items[k], k))],
                        [k \in DOMAIN answers.items |->
                           CacheClusterAsks(answers.items[k], k)], 1)
  /\ UNCHANGED <<checker, answers>>
  /\ UNCHANGED beyondChecker

(***************************************************************************)
(* checkRedshiftClusters                                                   *)
(***************************************************************************)
RedshiftClusters ==
  [ClusterStatus : {"available", "paused"},
   DatabaseConnections : Responses, CPUUtilization : Responses]

RedshiftCluster(cluster, clusterId) ==
  LET connections == getCloudWatchMetric(cluster.DatabaseConnections)
      cpuAvg == getCloudWatchMetric(cluster.CPUUtilization)
  IN  IF cluster.ClusterStatus # "available" THEN <<>>
      ELSE IF /\ NonNegative(connections)
              /\ LessThan(connections, CONNECTIONS_THRESHOLD)
      THEN <<UnusedResource("Amazon Redshift", clusterId, "No connections",
                            Null)>>
      ELSE IF NonNegative(cpuAvg) /\ LessThan(cpuAvg, CPU_THRESHOLD)
      THEN <<UnusedResource("Amazon Redshift", clusterId, "Low CPU", Null)>>
      ELSE <<>>

\* the metric queries of one iteration
RedshiftClusterAsks(cluster, clusterId) ==
  LET connections == getCloudWatchMetric(cluster.DatabaseConnections)
  IN  IF cluster.ClusterStatus # "available" THEN {}
      ELSE Query(clusterId, "DatabaseConnections") \cup
             (IF /\ NonNegative(connections)
                 /\ LessThan(connections, CONNECTIONS_THRESHOLD)
              THEN {}
              ELSE Query(clusterId, "CPUUtilization"))

checkRedshiftClusters ==
  /\ checker = "checkRedshiftClusters"
  /\ at = "called"
  /\ unusedResources' =
       IF answers.fails THEN <<>>
       ELSE Iterate([k \in DOMAIN answers.items |->
                       Pushes(RedshiftCluster(answers.items[k], k))], 1)
  /\ at' = "returned"
  /\ metricQueries' =
       IF answers.fails THEN {}
       ELSE IterateAsks([k \in DOMAIN answers.items |->
                           Pushes(RedshiftCluster(answers.items[k], k))],
                        [k \in DOMAIN answers.items |->
                           RedshiftClusterAsks(answers.items[k], k)], 1)
  /\ UNCHANGED <<checker, answers>>
  /\ UNCHANGED beyondChecker

(***************************************************************************)
(* checkOpenSearchDomains: every listed domain is described first          *)
(***************************************************************************)
Domains ==
  {[fails |-> TRUE, Created |-> FALSE, SearchRate |-> Failure,
    CPUUtilization |-> Failure]} \cup
  [fails : {FALSE}, Created : BOOLEAN,
   SearchRate : Responses, CPUUtilization : Responses]

Domain(domainInfo, domainName) ==
  LET searchRate == getCloudWatchSumMetric(domainInfo.SearchRate)
      cpuAvg == getCloudWatchMetric(domainInfo.CPUUtilization)
  IN  IF domainInfo.fails THEN Throws
      ELSE IF ~domainInfo.Created THEN Pushes(<<>>)
      ELSE IF NonNegative(searchRate) /\ IsZero(searchRate)
      THEN Pushes(<<UnusedResource("Amazon OpenSearch", domainName,
                                   "No search requests", Null)>>)
      ELSE IF NonNegative(cpuAvg) /\ LessThan(cpuAvg, CPU_THRESHOLD)
      THEN Pushes(<<UnusedResource("Amazon OpenSearch", domainName, "Low CPU",
                                   Null)>>)
      ELSE Pushes(<<>>)

\* the metric queries of one iteration
DomainAsks(domainInfo, domainName) ==
  LET searchRate == getCloudWatchSumMetric(domainInfo.SearchRate)
  IN  IF domainInfo.fails \/ ~domainInfo.Created THEN {}
      ELSE Query(domainName, "SearchRate") \cup
             (IF NonNegative(searchRate) /\ IsZero(searchRate)
              THEN {}
              ELSE Query(domainName, "CPUUtilization"))

checkOpenSearchDomains ==
  /\ checker = "checkOpenSearchDomains"
  /\ at = "called"
  /\ unusedResources' =
       IF answers.fails THEN <<>>
       ELSE Iterate([k \in DOMAIN answers.items |->
                       Domain(answers.items[k], k)], 1)
  /\ at' = "returned"
  /\ metricQueries' =
       IF answers.fails THEN {}
       ELSE IterateAsks([k \in DOMAIN answers.items |->
                           Domain(answers.items[k], k)],
                        [k \in DOMAIN answers.items |->
                           DomainAsks(answers.items[k], k)], 1)
  /\ UNCHANGED <<checker, answers>>
  /\ UNCHANGED beyondChecker

(***************************************************************************)
(* One call of one checker, with every answer its requests may get.        *)
(***************************************************************************)
AnswersTo(name) ==
  CASE name = "checkEC2Instances" -> Listing(Instances)
    [] name = "checkEBSVolumes" -> Listing(Volumes)
    [] name = "checkEBSSnapshots" -> SnapshotAnswers(EBSSnapshots, {"vol-1"})
    [] name = "checkRDSSnapshots" -> SnapshotAnswers(DBSnapshots, {"db-1"})
    [] name = "checkRDSClusterSnapshots" ->
         SnapshotAnswers(DBClusterSnapshots, {"cluster-1"})
    [] name = "checkEFSBackups" -> SnapshotAnswers(Vaults, {"fs-1"})
    [] name = "checkRDSInstances" -> Listing(DBInstances)
    [] name = "checkLoadBalancers" -> Listing(LoadBalancers)
    [] name = "checkElasticIPs" -> Listing(Addresses)
    [] name = "checkNATGateways" -> Listing(NatGateways)
    [] name = "checkEFSFileSystems" -> Listing(FileSystems)
    [] name = "checkEKSClusters" -> Listing(EKSClusters)
    [] name = "checkECSClusters" -> ECSAnswers
    [] name = "checkElastiCacheClusters" -> Listing(CacheClusters)
    [] name = "checkRedshiftClusters" -> Listing(RedshiftClusters)
    [] name = "checkOpenSearchDomains" -> Listing(Domains)

CheckerNames ==
  { "checkEC2Instances", "checkEBSVolumes", "checkEBSSnapshots",
    "checkRDSSnapshots", "checkRDSClusterSnapshots", "checkEFSBackups",
    "checkRDSInstances", "checkLoadBalancers", "checkElasticIPs",
    "checkNATGateways", "checkEFSFileSystems", "checkEKSClusters",
    "checkECSClusters", "checkElastiCacheClusters", "checkRedshiftClusters",
    "checkOpenSearchDomains" }

\* a checker was just called: const unusedResources = []
InitCheckers ==
  /\ CHILD_ACCOUNTS = <<>>
  /\ ENABLE_ORGANIZATION_MODE = ""
  /\ cachedAccountId = Null
  /\ pc = "idle"
  /\ parentAccountId = Null
  /\ useOrgMode = FALSE
  /\ orgAccounts = <<>>
  /\ acctIdx = 0
  /\ credentials = Null
  /\ allUnusedResources = <<>>
  /\ totalErrors = 0
  /\ accountId = Null
  /\ accountName = Null
  /\ resources = <<>>
  /\ errors = 0
  /\ i = 0
  /\ running = {}
  /\ batchResults = <<>>
  /\ strays = {}
  /\ acctState = <<>>
  /\ scans = [r \in AWS_REGIONS |-> 0]
  /\ batchLog = <<>>
  /\ invoked = {}
  /\ returned = {}
  /\ caught = {}
  /\ found = 0
  /\ escapes = 0
  /\ checker \in CheckerNames
  /\ answers \in AnswersTo(checker)
  /\ unusedResources = <<>>
  /\ metricQueries = {}
  /\ at = "called"
  /\ now = 0
  /\ earlier = <<>>
  /\ NoReport
  /\ NoMetricQuery
  /\ NoLookup

NextCheckers ==
  \/ checkEC2Instances
  \/ checkEBSVolumes
  \/ checkEBSSnapshots
  \/ checkRDSSnapshots
  \/ checkRDSClusterSnapshots
  \/ checkEFSBackups
  \/ checkRDSInstances
  \/ checkLoadBalancers
  \/ checkElasticIPs
  \/ checkNATGateways
  \/ checkEFSFileSystems
  \/ checkEKSClusters
  \/ checkECSClusters
  \/ checkElastiCacheClusters
  \/ checkRedshiftClusters
  \/ checkOpenSearchDomains

SpecCheckers == InitCheckers /\ [][NextCheckers]_vars

(***************************************************************************)
(* The same checker called again by a later run, against the same          *)
(* inventory and the same metrics; only the clock has moved.               *)
(***************************************************************************)
CallAgain ==
  /\ at = "returned"
  /\ earlier = <<>>
  /\ \E elapsed \in 0 .. MaxElapsedMs : now' = now + elapsed
  /\ earlier' = Append(earlier, unusedResources)
  /\ unusedResources' = <<>>
  /\ metricQueries' = {}
  /\ at' = "called"
  /\ UNCHANGED <<checker, answers>>
  /\ UNCHANGED <<orchVars, report, gateway, identity>>

NextTwice ==
  \/ NextCheckers
  \/ CallAgain

SpecTwice == InitCheckers /\ [][NextTwice]_vars

(***************************************************************************)
(* The metric gateway called once on its own: getCloudWatchMetric for the  *)
(* Average statistic, getCloudWatchSumMetric for Sum.  The metrics asked   *)
(* for (utilisation, bytes, connections, requests) are never negative.     *)
(***************************************************************************)
RECURSIVE SeqsUpTo(_, _)
SeqsUpTo(S, n) ==
  IF n = 0 THEN {<<>>}
  ELSE LET shorter == SeqsUpTo(S, n - 1)
       IN  shorter \cup {Append(q, x) : q \in shorter, x \in S}

\* what CloudWatch may answer to the one request of a gateway call
MetricResponses ==
  {Failure} \cup
    {Datapoints(dps) : dps \in SeqsUpTo(0 .. MaxDatapoint, MaxDatapoints)}

\* a call of getCloudWatchMetric runs to its return
AverageQuery ==
  /\ gatewayAt = "called"
  /\ statistic = "Average"
  /\ metricValue' = <<getCloudWatchMetric(metricResponse)>>
  /\ gatewayAt' = "returned"
  /\ UNCHANGED <<statistic, metricResponse>>
  /\ UNCHANGED beyondGateway

\* a call of getCloudWatchSumMetric runs to its return
SumQuery ==
  /\ gatewayAt = "called"
  /\ statistic = "Sum"
  /\ metricValue' = <<getCloudWatchSumMetric(metricResponse)>>
  /\ gatewayAt' = "returned"
  /\ UNCHANGED <<statistic, metricResponse>>
  /\ UNCHANGED beyondGateway

\* the gateway was just called; no scan, checker call or report is looked at
InitMetric ==
  /\ CHILD_ACCOUNTS = <<>>
  /\ ENABLE_ORGANIZATION_MODE = ""
  /\ cachedAccountId = Null
  /\ pc = "idle"
  /\ parentAccountId = Null
  /\ useOrgMode = FALSE
  /\ orgAccounts = <<>>
  /\ acctIdx = 0
  /\ credentials = Null
  /\ allUnusedResources = <<>>
  /\ totalErrors = 0
  /\ accountId = Null
  /\ accountName = Null
  /\ resources = <<>>
  /\ errors = 0
  /\ i = 0
  /\ running = {}
  /\ batchResults = <<>>
  /\ strays = {}
  /\ acctState = <<>>
  /\ scans = [r \in AWS_REGIONS |-> 0]
  /\ batchLog = <<>>
  /\ invoked = {}
  /\ returned = {}
  /\ caught = {}
  /\ found = 0
  /\ escapes = 0
  /\ checker = "none"
  /\ answers = <<>>
  /\ unusedResources = <<>>
  /\ metricQueries = {}
  /\ at = "idle"
  /\ now = 0
  /\ earlier = <<>>
  /\ NoReport
  /\ statistic \in {"Average", "Sum"}
  /\ metricResponse \in MetricResponses
  /\ gatewayAt = "called"
  /\ metricValue = <<>>
  /\ NoLookup

NextMetric ==
  \/ AverageQuery
  \/ SumQuery

SpecMetric == InitMetric /\ [][NextMetric]_vars

(***************************************************************************)
(* getAccountId as the handler invocations of one container call it: in   *)
(* the array of its Promise.all the generator first calls                  *)
(* detectUnusedResources, which runs up to its await of getAccountId(),    *)
(* and then getAccountId() itself; no response is handled before the       *)
(* array is complete.  cachedAccountId outlives the invocation.            *)
(***************************************************************************)
\* the callers of getAccountId in the order of their calls
Callers == <<"detectUnusedResources", "generateReport">>

Lookup(position, id) == [at |-> position, id |-> id]

Settled(l) == l.at \in {"returned", "thrown"}

\* the next caller calls getAccountId(): a cached id is returned, else
\* GetCallerIdentity is sent and awaited
CallGetAccountId ==
  /\ \E k \in DOMAIN Callers :
       /\ k \in DOMAIN lookups
       /\ lookups[k].at = "idle"
       /\ \A j \in 1 .. k - 1 : lookups[j].at # "idle"
       /\ IF cachedAccountId # Null
          THEN /\ lookups' =
                    [lookups EXCEPT ![k] = Lookup("returned", cachedAccountId)]
               /\ identityRequests' = identityRequests
          ELSE /\ lookups' = [lookups EXCEPT ![k] = Lookup("awaiting", Null)]
               /\ identityRequests' = identityRequests + 1
  /\ UNCHANGED <<invocations, coldStart, cachedAccountId>>
  /\ UNCHANGED beyondIdentity

\* a GetCallerIdentity request answers: response.Account || "Unknown" is
\* cached and returned
GetCallerIdentityReturns ==
  /\ \A j \in DOMAIN lookups : lookups[j].at # "idle"
  /\ \E k \in DOMAIN lookups :
       /\ lookups[k].at = "awaiting"
       /\ \E acct \in {CallerAccount, Unknown} :
            /\ cachedAccountId' = acct
            /\ lookups' = [lookups EXCEPT ![k] = Lookup("returned", acct)]
  /\ UNCHANGED <<invocations, coldStart, identityRequests>>
  /\ UNCHANGED beyondIdentity

\* a GetCallerIdentity request fails: getAccountId rejects
GetCallerIdentityFails ==
  /\ \A j \in DOMAIN lookups : lookups[j].at # "idle"
  /\ \E k \in DOMAIN lookups :
       /\ lookups[k].at = "awaiting"
       /\ lookups' = [lookups EXCEPT ![k] = Lookup("thrown", Null)]
  /\ UNCHANGED <<invocations, coldStart, identityRequests, cachedAccountId>>
  /\ UNCHANGED beyondIdentity

\* the container serves its next invocation
InvokeAgain ==
  /\ invocations \in 1 .. MaxInvocations - 1
  /\ \A j \in DOMAIN lookups : Settled(lookups[j])
  /\ invocations' = invocations + 1
  /\ coldStart' = (cachedAccountId = Null)
  /\ lookups' = [k \in DOMAIN Callers |-> Lookup("idle", Null)]
  /\ identityRequests' = 0
  /\ UNCHANGED cachedAccountId
  /\ UNCHANGED beyondIdentity

\* the first invocation of a fresh container has just begun
InitIdentity ==
  /\ CHILD_ACCOUNTS = <<>>
  /\ ENABLE_ORGANIZATION_MODE = ""
  /\ cachedAccountId = Null
  /\ pc = "idle"
  /\ parentAccountId = Null
  /\ useOrgMode = FALSE
  /\ orgAccounts = <<>>
  /\ acctIdx = 0
  /\ credentials = Null
  /\ allUnusedResources = <<>>
  /\ totalErrors = 0
  /\ accountId = Null
  /\ accountName = Null
  /\ resources = <<>>
  /\ errors = 0
  /\ i = 0
  /\ running = {}
  /\ batchResults = <<>>
  /\ strays = {}
  /\ acctState = <<>>
  /\ scans = [r \in AWS_REGIONS |-> 0]
  /\ batchLog = <<>>
  /\ invoked = {}
  /\ returned = {}
  /\ caught = {}
  /\ found = 0
  /\ escapes = 0
  /\ checker = "none"
  /\ answers = <<>>
  /\ unusedResources = <<>>
  /\ metricQueries = {}
  /\ at = "idle"
  /\ now = 0
  /\ earlier = <<>>
  /\ NoReport
  /\ NoMetricQuery
  /\ invocations = 1
  /\ coldStart = TRUE
  /\ lookups = [k \in DOMAIN Callers |-> Lookup("idle", Null)]
  /\ identityRequests = 0

NextIdentity ==
  \/ CallGetAccountId
  \/ GetCallerIdentityReturns
  \/ GetCallerIdentityFails
  \/ InvokeAgain

SpecIdentity == InitIdentity /\ [][NextIdentity]_vars

(***************************************************************************)
(* The unused-resources table of the second Slack message: its header and  *)
(* one row per listed resource, of which the account cell is kept.         *)
(***************************************************************************)
\* Number(process.env.UNUSED_SERVICES_COUNT || 40) with the variable unset
limitToUnusedCount == 40

\* unusedResources.some((r) => r.accountId)
isOrgMode(list) == \E k \in DOMAIN list : list[k].accountId # Null

headerCells(list) ==
  IF isOrgMode(list)
  THEN <<"#", "Service", "Resource", "Region", "Reason", "Account ID">>
  ELSE <<"#", "Service", "Resource", "Region", "Reason">>

\* the cell r.accountId || "-", present in organization layout only
accountCell(list, r) ==
  IF ~isOrgMode(list) THEN <<>>
  ELSE IF r.accountId # Null THEN <<r.accountId>>
  ELSE <<<<"-">>>>

buildUnusedResourcesTable(list) ==
  [type |-> "table",
   header |-> headerCells(list),
   rows |-> [k \in 1 .. Min(Len(list), limitToUnusedCount) |->
               [n |-> k, region |-> list[k].region,
                account |-> accountCell(list, list[k])]]]

(***************************************************************************)
(* The Lambda handler: generateWeeklyReport / generateMonthlyReport and    *)
(* sendWeeklyReport / sendMonthlyReport.  The four promises the handler    *)
(* gathers settle in any order; what they compute is modelled elsewhere.   *)
(***************************************************************************)
\* the types of event the handler is invoked with
EventTypes == {"weekly", "monthly", "daily"}
\* process.env.SLACK_WEBHOOK_URL || "": unset, or the webhook's address
WebhookSettings == {"", "https://hooks.slack.example/T0"}

\* the promises of the Promise.all of each report
CallsOf(type) ==
  IF type = "weekly"
  THEN {"getCosts(currentWeekRange)", "getCosts(previousWeekRange)",
        "detectUnusedResources", "getAccountId"}
  ELSE {"getCosts(monthToDateRange)", "getCostForecast",
        "detectUnusedResources", "getAccountId"}

\* getCostForecast catches every failure and returns 0; the others reject
\* when a request of theirs fails outside a try block
MayReject(call) == call # "getCostForecast"

\* Promise.allSettled in place of Promise.all
PromiseAllSettled(cs) ==
  IF \E c \in DOMAIN cs : cs[c] = "pending" THEN "pending" ELSE "resolved"

\* Promise.all: rejected as soon as one promise is, resolved when all are
PromiseAll(cs) ==
  IF \E c \in DOMAIN cs : cs[c] = "rejected" THEN "rejected"
  ELSE IF \A c \in DOMAIN cs : cs[c] = "resolved" THEN "resolved"
  ELSE "pending"

\* the two messages of a report, in the order sendWeeklyReport and
\* sendMonthlyReport send them
ReportMessages == <<"cost report", "unused resources report">>

\* handler(event, context): the report type selects the generator, which
\* starts its four calls; any other type throws
handler ==
  /\ handlerAt = "idle"
  /\ IF event \in {"weekly", "monthly"}
     THEN /\ calls' = [c \in CallsOf(event) |-> "pending"]
          /\ handlerAt' = "gather"
     ELSE /\ calls' = calls
          /\ handlerAt' = "raised"
  /\ UNCHANGED <<event, SLACK_WEBHOOK_URL, posted, accepted>>
  /\ UNCHANGED beyondReport

\* one of the gathered promises resolves
CallResolves ==
  /\ \E c \in DOMAIN calls :
       /\ calls[c] = "pending"
       /\ calls' = [calls EXCEPT ![c] = "resolved"]
  /\ UNCHANGED <<event, SLACK_WEBHOOK_URL, handlerAt, posted, accepted>>
  /\ UNCHANGED beyondReport

\* one of the gathered promises rejects
CallRejects ==
  /\ \E c \in DOMAIN calls :
       /\ MayReject(c)
       /\ calls[c] = "pending"
       /\ calls' = [calls EXCEPT ![c] = "rejected"]
  /\ UNCHANGED <<event, SLACK_WEBHOOK_URL, handlerAt, posted, accepted>>
  /\ UNCHANGED beyondReport

\* await Promise.all([...]) throws: the generator and the handler rethrow
GatherRejects ==
  /\ handlerAt = "gather"
  /\ PromiseAll(calls) = "rejected"
  /\ handlerAt' = "raised"
  /\ UNCHANGED <<event, SLACK_WEBHOOK_URL, calls, posted, accepted>>
  /\ UNCHANGED beyondReport

\* await Promise.all([...]) returns: the report data is built and
\* sendWeeklyReport / sendMonthlyReport sends the first message;
\* sendSlackMessage throws before fetch when the webhook is not set
sendReport ==
  /\ handlerAt = "gather"
  /\ PromiseAll(calls) = "resolved"
  /\ IF SLACK_WEBHOOK_URL = ""
     THEN /\ posted' = posted
          /\ handlerAt' = "raised"
     ELSE /\ posted' = Append(posted, ReportMessages[1])
          /\ handlerAt' = "awaitFirst"
  /\ UNCHANGED <<event, SLACK_WEBHOOK_URL, calls, accepted>>
  /\ UNCHANGED beyondReport

\* fetch resolves with response.ok: after the first message the second is
\* sent, after the second the handler returns statusCode 200
SlackAccepts ==
  /\ handlerAt \in {"awaitFirst", "awaitSecond"}
  /\ accepted' = Append(accepted, posted[Len(posted)])
  /\ IF handlerAt = "awaitFirst"
     THEN /\ posted' = Append(posted, ReportMessages[2])
          /\ handlerAt' = "awaitSecond"
     ELSE /\ posted' = posted
          /\ handlerAt' = "done"
  /\ UNCHANGED <<event, SLACK_WEBHOOK_URL, calls>>
  /\ UNCHANGED beyondReport

\* fetch rejects or resolves with a status that is not ok: sendSlackMessage
\* throws and the handler rethrows
SlackRefuses ==
  /\ handlerAt \in {"awaitFirst", "awaitSecond"}
  /\ handlerAt' = "raised"
  /\ UNCHANGED <<event, SLACK_WEBHOOK_URL, calls, posted, accepted>>
  /\ UNCHANGED beyondReport

\* the handler was just invoked; no scan and no checker call is looked at
InitReport ==
  /\ CHILD_ACCOUNTS = <<>>
  /\ ENABLE_ORGANIZATION_MODE = ""
  /\ cachedAccountId = Null
  /\ pc = "idle"
  /\ parentAccountId = Null
  /\ useOrgMode = FALSE
  /\ orgAccounts = <<>>
  /\ acctIdx = 0
  /\ credentials = Null
  /\ allUnusedResources = <<>>
  /\ totalErrors = 0
  /\ accountId = Null
  /\ accountName = Null
  /\ resources = <<>>
  /\ errors = 0
  /\ i = 0
  /\ running = {}
  /\ batchResults = <<>>
  /\ strays = {}
  /\ acctState = <<>>
  /\ scans = [r \in AWS_REGIONS |-> 0]
  /\ batchLog = <<>>
  /\ invoked = {}
  /\ returned = {}
  /\ caught = {}
  /\ found = 0
  /\ escapes = 0
  /\ checker = "none"
  /\ answers = <<>>
  /\ unusedResources = <<>>
  /\ metricQueries = {}
  /\ at = "idle"
  /\ now = 0
  /\ earlier = <<>>
  /\ event \in EventTypes
  /\ SLACK_WEBHOOK_URL \in WebhookSettings
  /\ handlerAt = "idle"
  /\ calls = <<>>
  /\ posted = <<>>
  /\ accepted = <<>>
  /\ NoMetricQuery
  /\ NoLookup

NextReport ==
  \/ handler
  \/ CallResolves
  \/ CallRejects
  \/ GatherRejects
  \/ sendReport
  \/ SlackAccepts
  \/ SlackRefuses

SpecReport == InitReport /\ [][NextReport]_vars

(***************************************************************************)
(* Properties of the orchestrator and of the account scan.                *)
(***************************************************************************)
IsPrefix(a, b) == Len(a) <= Len(b) /\ SubSeq(b, 1, Len(a)) = a

\* a resource list without the account fields the tagging loop writes
Untagged(q) ==
  [k \in 1 .. Len(q) |-> [region |-> q[k].region, origin |-> q[k].origin]]

\* how many resources of q the checkers of (acct, region) produced
CountFrom(q, acct, region) ==
  Cardinality({k \in 1 .. Len(q) :
                 q[k].origin = acct /\ q[k].region = region})

Accounts == DOMAIN acctState
Terminal == {"done", "skipped"}
Active == {"ambient", "assuming-role", "scanning"}

\* C1: detectUnusedResources never raises to its caller, whichever external
\* calls fail (caller-identity lookup, role assumption, inventory, metrics).
\* The code lets a failed caller-identity lookup through.
C1_NeverRaises == pc # "thrown"

\* C2: an account whose role assumption failed contributes no resource and
\* has no checker called for it, the failure adds exactly 1 to the error
\* tally and changes no resource, and when the run returns every configured
\* account, those after it included, is done or skipped.
C2_SkippedState ==
  /\ \A a \in Accounts :
       acctState[a] = "skipped" =>
         /\ a # parentAccountId
         /\ \A k \in 1 .. Len(allUnusedResources) :
              /\ allUnusedResources[k].origin # a
              /\ allUnusedResources[k].accountId # a
         /\ \A v \in invoked : v.acct # a
         /\ \A e \in returned : e.acct # a
         /\ \A t \in strays : t.acct # a
  /\ pc = "returned" =>
       \A k \in 1 .. Len(orgAccounts) : acctState[orgAccounts[k]] \in Terminal

C2_SkipStep ==
  (\E a \in Accounts :
     /\ a \in DOMAIN acctState'
     /\ acctState[a] # "skipped"
     /\ acctState'[a] = "skipped")
  => /\ totalErrors' = totalErrors + 1
     /\ allUnusedResources' = allUnusedResources
     /\ acctState[CurrentAccount] = "assuming-role"

C2_SkippedAccount == [] C2_SkippedState /\ [][C2_SkipStep]_orchVars

\* C2 witness: the run returned, a child account was skipped and the account
\* configured after it was scanned
C2_Witness ==
  /\ pc = "returned"
  /\ totalErrors >= 1
  /\ \E k \in 1 .. Len(orgAccounts) - 1 :
       /\ acctState[orgAccounts[k]] = "skipped"
       /\ acctState[orgAccounts[k + 1]] = "done"
       /\ \E v \in invoked : v.acct = orgAccounts[k + 1]

\* C3: when a checker's error escapes in a region, the region scan catches
\* it, counts exactly one error for the region, and the resources the other
\* checkers of that region returned are in the account's result.
\* The code drops them: results is filled only when no checker rejected.
C3_RejectedRegionKeepsOthers ==
  \A c \in caught :
    acctState[c.acct] = "done" =>
      /\ totalErrors >= Cardinality({d \in caught : d.acct = c.acct})
      /\ \A e \in returned :
           (e.acct = c.acct /\ e.region = c.region) =>
             CountFrom(allUnusedResources, e.acct, e.region) = e.n

\* C4: within an account scan the accumulated list only grows, and what the
\* checkers of a region returned stays in it once the region's batch was
\* pushed (and in the run's list once the account is done), whatever was
\* thrown in other regions.
C4_RegionsKept ==
  \A e \in returned :
    [acct |-> e.acct, region |-> e.region] \notin caught =>
      /\ (e.acct = accountId /\ acctState[e.acct] = "scanning"
            /\ e.region <= i)
           => CountFrom(resources, e.acct, e.region) = e.n
      /\ acctState[e.acct] = "done"
           => CountFrom(allUnusedResources, e.acct, e.region) = e.n

C4_GrowStep ==
  pc \in {"batch", "awaitBatch"} =>
    IsPrefix(Untagged(resources), Untagged(resources'))

C4_NeverShrinks == [] C4_RegionsKept /\ [][C4_GrowStep]_orchVars

\* C4 witness: an account scan ended in which one region threw and another
\* region, of an earlier batch, contributed a resource
C4_Witness ==
  \E c \in caught, e \in returned :
    /\ c.acct = e.acct
    /\ e.region < c.region
    /\ BatchOf(0) # {} /\ c.region \notin BatchOf(0) /\ e.region \in BatchOf(0)
    /\ acctState[c.acct] = "done"
    /\ CountFrom(allUnusedResources, e.acct, e.region) = e.n

\* C5: over the whole run the error tally only increases and the resource
\* list only grows: what was merged from earlier accounts stays.
C5_OnlyGrows ==
  [][/\ totalErrors' >= totalErrors
     /\ IsPrefix(allUnusedResources, allUnusedResources')]_orchVars

\* C5 witness: resources of the first account are in the list while a later
\* account was skipped or had a region throw
C5_Witness ==
  /\ Len(orgAccounts) >= 2
  /\ Len(allUnusedResources) >= 1
  /\ CountFrom(allUnusedResources, orgAccounts[1],
               allUnusedResources[1].region) >= 1
  /\ \E k \in 2 .. Len(orgAccounts) :
       \/ acctState[orgAccounts[k]] = "skipped"
       \/ /\ acctState[orgAccounts[k]] = "done"
          /\ \E c \in caught : c.acct = orgAccounts[k]

\* C6: accounts are processed one at a time in configured order: while an
\* account is taking credentials or being scanned, every account before it is
\* done or skipped and every account after it is still pending, and the
\* request or scan in progress is that account's.
C6_OneAccountAtATime ==
  /\ \A k \in 1 .. Len(orgAccounts) :
       acctState[orgAccounts[k]] \in Active =>
         /\ k = acctIdx
         /\ \A j \in 1 .. k - 1 : acctState[orgAccounts[j]] \in Terminal
         /\ \A j \in k + 1 .. Len(orgAccounts) :
              acctState[orgAccounts[j]] = "pending"
  /\ Cardinality({a \in Accounts : acctState[a] \in Active}) <= 1
  /\ pc = "assuming" => acctState[CurrentAccount] = "assuming-role"
  /\ pc \in {"batch", "awaitBatch"} =>
       /\ accountId = CurrentAccount
       /\ acctState[accountId] = "scanning"
  /\ running # {} => pc = "awaitBatch"

\* C6 witness: the third configured account is being scanned after the first
\* was scanned and the second skipped
C6_Witness ==
  /\ Len(orgAccounts) = 3
  /\ acctState[orgAccounts[1]] = "done"
  /\ acctState[orgAccounts[2]] = "skipped"
  /\ acctState[orgAccounts[3]] = "scanning"
  /\ running # {}

\* C7: batches run one after another, so at most 4 regions and at most
\* 4 x 16 checker calls are in flight at any moment.
\* The checker calls of a region whose scan ended by a rejection are still
\* in flight when the next batch starts.
C7_BoundedFanOut ==
  /\ running \subseteq BatchOf(i)
  /\ RegionsInFlight <= batchSize
  /\ CheckersInFlight <= batchSize * NumCheckers

\* C8: every account scan visits each of the 17 regions exactly once, in 5
\* batches of 4, 4, 4, 4 and 1 regions, whether or not a region scan fails.
C8_RegionsOncePerAccount ==
  /\ \A r \in AWS_REGIONS : scans[r] <= 1
  /\ (accountId \in Accounts /\ acctState[accountId] = "done") =>
       /\ \A r \in AWS_REGIONS : scans[r] = 1
       /\ batchLog = <<4, 4, 4, 4, 1>>
  /\ pc = "awaitBatch" => \A r \in running : scans[r] = 1

\* C8 witness: an account scan ended in which a region scan failed
C8_Witness ==
  /\ accountId \in Accounts
  /\ acctState[accountId] = "done"
  /\ \E c \in caught : c.acct = accountId
  /\ Len(batchLog) = 5

(***************************************************************************)
(* Properties of the resource checkers.                                    *)
(***************************************************************************)
Conclusive(response) == ~response.fails /\ Len(response.Datapoints) >= 1

\* the metric has datapoints and its value is exactly 0
ConfirmedZero(response) ==
  /\ Conclusive(response)
  /\ \A k \in DOMAIN response.Datapoints : response.Datapoints[k] = 0

RECURSIVE Total(_)
Total(dps) == IF dps = <<>> THEN 0 ELSE dps[1] + Total(Tail(dps))

\* the metric has datapoints and their mean is below t (and not negative)
BelowThreshold(response, t) ==
  /\ Conclusive(response)
  /\ Total(response.Datapoints) >= 0
  /\ Total(response.Datapoints) < t * Len(response.Datapoints)

\* the inventory entry an emitted resource stands for
EntryOf(e) ==
  IF checker = "checkECSClusters"
  THEN answers.items[e.resourceId[1]].services[e.resourceId[2]]
  ELSE answers.items[e.resourceId]

CpuMetric ==
  IF checker = "checkEKSClusters" THEN "cluster_cpu_utilization"
  ELSE "CPUUtilization"

ConnectionsMetric ==
  IF checker = "checkElastiCacheClusters" THEN "CurrConnections"
  ELSE "DatabaseConnections"

\* what the claim asks of the metrics a flag rests on
FlagIsFounded(e) ==
  CASE e.reason = "Low CPU" ->
         BelowThreshold(EntryOf(e)[CpuMetric], CPU_THRESHOLD)
    [] e.reason = "No connections" ->
         BelowThreshold(EntryOf(e)[ConnectionsMetric], CONNECTIONS_THRESHOLD)
    [] e.reason = "No network traffic" ->
         /\ BelowThreshold(EntryOf(e).NetworkIn, NETWORK_THRESHOLD)
         /\ BelowThreshold(EntryOf(e).NetworkOut, NETWORK_THRESHOLD)
    [] e.reason = "No traffic" ->
         ConfirmedZero(IF EntryOf(e).Type = "network"
                       THEN EntryOf(e).ActiveFlowCount
                       ELSE EntryOf(e).RequestCount)
    [] e.reason = "No outbound traffic" ->
         ConfirmedZero(EntryOf(e).BytesOutToDestination)
    [] e.reason = "No client connections" ->
         ConfirmedZero(EntryOf(e).ClientConnections)
    [] e.reason = "No I/O operations" ->
         /\ ConfirmedZero(EntryOf(e).VolumeReadOps)
         /\ ConfirmedZero(EntryOf(e).VolumeWriteOps)
    [] e.reason = "No nodes in cluster" ->
         ConfirmedZero(EntryOf(e).cluster_node_count)
    [] e.reason = "No search requests" ->
         ConfirmedZero(EntryOf(e).SearchRate)
    [] OTHER -> TRUE

\* C9: whatever a checker returns, each metric flag in it rests on metrics
\* that have datapoints: a confirmed-zero flag on a value of exactly 0, a
\* threshold flag on a value >= 0 and below the threshold; a failed request
\* (-1) or a metric without datapoints (-2) produces no flag
C9_InconclusiveNeverFlags ==
  at = "returned" =>
    \A k \in DOMAIN unusedResources : FlagIsFounded(unusedResources[k])

\* a load balancer whose request fails and one without datapoints are not
\* flagged; one with a confirmed total of 0 is
C9_Witness ==
  /\ at = "returned"
  /\ checker = "checkLoadBalancers"
  /\ ~answers.fails
  /\ Len(answers.items) = 2
  /\ answers.items[1].Type = "application"
  /\ answers.items[1].RequestCount = Failure
  /\ answers.items[1].ActiveFlowCount = Datapoints(<<0>>)
  /\ answers.items[2].Type = "network"
  /\ answers.items[2].ActiveFlowCount = Datapoints(<<0>>)
  /\ answers.items[2].RequestCount = Datapoints(<<>>)
  /\ Len(unusedResources) = 1
  /\ unusedResources[1].resourceId = 2
  /\ unusedResources[1].reason = "No traffic"

SnapshotCheckers ==
  { "checkEBSSnapshots", "checkRDSSnapshots", "checkRDSClusterSnapshots",
    "checkEFSBackups" }

OrphanReasons == {"Orphaned", "Orphaned snapshot"}

\* the snapshots and backups the loop of the checker gets to: id and entry
Evaluated ==
  IF answers.fails THEN {}
  ELSE IF checker = "checkEFSBackups"
  THEN UNION
         { { [id |-> <<v, k>>, entry |-> answers.items[v].RecoveryPoints[k]] :
               k \in DOMAIN answers.items[v].RecoveryPoints } :
             v \in { u \in DOMAIN answers.items :
                       \A w \in 1 .. u : ~answers.items[w].fails } }
  ELSE { [id |-> k, entry |-> answers.items[k]] : k \in DOMAIN answers.items }

\* the id of the source a snapshot or backup was taken from, "" if it has none
SourceOf(entry) ==
  CASE checker = "checkEBSSnapshots" ->
         IF entry.VolumeId = "vol-ffffffff" THEN "" ELSE entry.VolumeId
    [] checker = "checkRDSSnapshots" -> entry.DBInstanceIdentifier
    [] checker = "checkRDSClusterSnapshots" -> entry.DBClusterIdentifier
    [] checker = "checkEFSBackups" ->
         IF Len(entry.ResourceArn) = 2 /\ entry.ResourceArn[1] = "file-system"
         THEN entry.ResourceArn[2] ELSE ""

CreatedAt(entry) ==
  CASE checker = "checkEBSSnapshots" -> entry.StartTime
    [] checker = "checkEFSBackups" -> entry.CreationDate
    [] OTHER -> entry.SnapshotCreateTime

\* the checker does not skip the entry for its status
Eligible(entry) ==
  CASE checker = "checkEBSSnapshots" -> TRUE
    [] checker = "checkEFSBackups" -> entry.Status = "COMPLETED"
    [] OTHER -> entry.Status = "available"

OrphanCondition(entry) ==
  SourceOf(entry) # "" /\ SourceOf(entry) \notin answers.existing

AgeCondition(entry) ==
  /\ CreatedAt(entry).present
  /\ \/ CreatedAt(entry).days > SNAPSHOT_AGE_THRESHOLD_DAYS
     \/ /\ CreatedAt(entry).days = SNAPSHOT_AGE_THRESHOLD_DAYS
        /\ CreatedAt(entry).ms > 0

EntriesFor(id) ==
  {k \in DOMAIN unusedResources : unusedResources[k].resourceId = id}

\* C10: a snapshot or backup the EBS-snapshot, RDS-snapshot,
\* RDS-cluster-snapshot or EFS-backup checker evaluates is emitted at most
\* once; when it is both orphaned and old it is emitted exactly once, with
\* the orphan reason
C10_OneEntryOrphanFirst ==
  (at = "returned" /\ checker \in SnapshotCheckers) =>
    \A s \in Evaluated :
      /\ Cardinality(EntriesFor(s.id)) <= 1
      /\ (Eligible(s.entry) /\ OrphanCondition(s.entry)
            /\ AgeCondition(s.entry)) =>
           /\ Cardinality(EntriesFor(s.id)) = 1
           /\ \A k \in EntriesFor(s.id) :
                unusedResources[k].reason \in OrphanReasons

\* two EBS snapshots, both orphaned and old, each emitted once as orphaned
C10_Witness ==
  /\ at = "returned"
  /\ checker = "checkEBSSnapshots"
  /\ Cardinality(Evaluated) = 2
  /\ \A s \in Evaluated : OrphanCondition(s.entry) /\ AgeCondition(s.entry)
  /\ Len(unusedResources) = 2
  /\ unusedResources[1].resourceId = 1
  /\ unusedResources[2].resourceId = 2
  /\ \A k \in 1 .. 2 : unusedResources[k].reason = "Orphaned"

(***************************************************************************)
(* Properties of the scanned account set and of the credentials used.      *)
(***************************************************************************)
\* C11: in organization mode the caller's own account is always scanned,
\* with ambient credentials, even when CHILD_ACCOUNTS does not list it.
\* The code iterates the configured accounts only.
C11_CallerAlwaysScanned ==
  (pc = "returned" /\ useOrgMode) =>
    /\ parentAccountId \in Accounts
    /\ acctState[parentAccountId] = "done"
    /\ [acct |-> parentAccountId, creds |-> Null] \in invoked

\* C12: role assumption is never attempted for the caller's own account
\* (the account id the run resolved), whose checkers run with ambient
\* credentials; the checkers of any other account run with the credentials
\* the role assumption for that account returned.
C12_CredentialsMatchAccount ==
  /\ \A a \in Accounts :
       acctState[a] = "assuming-role" => a # parentAccountId
  /\ pc = "assuming" => CurrentAccount # parentAccountId
  /\ pc \in {"batch", "awaitBatch"} =>
       credentials = IF accountId = parentAccountId THEN Null
                     ELSE CredentialsOf(accountId)
  /\ \A v \in invoked :
       v.creds = IF v.acct = parentAccountId THEN Null
                 ELSE CredentialsOf(v.acct)

\* C12 witness: in one run the caller's account was scanned with ambient
\* credentials and a child account with its own
C12_Witness ==
  /\ pc = "returned"
  /\ parentAccountId # Null
  /\ [acct |-> parentAccountId, creds |-> Null] \in invoked
  /\ \E v \in invoked :
       v.acct # parentAccountId /\ v.creds = CredentialsOf(v.acct)

\* CHILD_ACCOUNTS names no account: it is unset, blank, or only separators
NoAccountConfigured ==
  \/ getConfiguredAccounts(CHILD_ACCOUNTS).isNull
  \/ Len(getConfiguredAccounts(CHILD_ACCOUNTS).ids) = 0

\* a run that scanned the caller's account alone, with ambient credentials,
\* and returned what that scan yields: the resources of the regions whose
\* scan was not cut short, one error for each region whose scan was
SingleAccountOutcome ==
  /\ orgAccounts = <<parentAccountId>>
  /\ invoked = {[acct |-> parentAccountId, creds |-> Null]}
  /\ totalErrors = Cardinality(caught)
  /\ \A k \in 1 .. Len(allUnusedResources) :
       /\ allUnusedResources[k].origin = parentAccountId
       /\ [acct |-> parentAccountId,
           region |-> allUnusedResources[k].region] \notin caught
       /\ \E e \in returned :
            /\ e.acct = parentAccountId
            /\ e.region = allUnusedResources[k].region
  /\ \A e \in returned :
       CountFrom(allUnusedResources, e.acct, e.region) =
         IF [acct |-> e.acct, region |-> e.region] \in caught THEN 0 ELSE e.n

\* C13: when CHILD_ACCOUNTS is set but yields an empty account set the run
\* is a single-account run: no role is assumed, only the caller's account
\* is scanned, with ambient credentials, and the returned resources and the
\* error count are those of the single-account scan, whatever the value of
\* CHILD_ACCOUNTS that yields the empty set.
C13_EmptySetIsSingleAccount ==
  NoAccountConfigured =>
    /\ pc # "assuming"
    /\ \A a \in Accounts : acctState[a] \notin {"assuming-role", "skipped"}
    /\ invoked \subseteq {[acct |-> parentAccountId, creds |-> Null]}
    /\ pc = "returned" => SingleAccountOutcome

\* C13 witness: CHILD_ACCOUNTS is set to separators only; the run returned a
\* resource of one region and counted the failed scan of another
C13_Witness ==
  /\ CHILD_ACCOUNTS # <<>>
  /\ NoAccountConfigured
  /\ pc = "returned"
  /\ SingleAccountOutcome
  /\ Len(allUnusedResources) >= 1
  /\ totalErrors >= 1

(***************************************************************************)
(* Properties of repeated runs.                                            *)
(***************************************************************************)
\* C14: a second run against unchanged inventory, metrics and configuration
\* returns the same set of resources as the first, order ignored.
\* The age of a snapshot is taken against the clock of each run, so a
\* snapshot on the threshold is flagged by the later run only.
C14_SameResultTwice ==
  (at = "returned" /\ Len(earlier) = 1) =>
    Range(unusedResources) = Range(earlier[1])

(***************************************************************************)
(* Properties of the account tagging and of the account state machine.     *)
(***************************************************************************)
C15_Tagged ==
  /\ \A k \in 1 .. Len(allUnusedResources) :
       /\ allUnusedResources[k].accountId = allUnusedResources[k].origin
       /\ allUnusedResources[k].accountName = allUnusedResources[k].origin
  /\ pc \in {"batch", "awaitBatch"} =>
       \A k \in 1 .. Len(resources) :
         /\ resources[k].accountId = Null
         /\ resources[k].accountName = Null

C15_TagStep ==
  (pc = "batch" /\ pc' = "next") =>
    /\ Untagged(resources') = Untagged(resources)
    /\ \A k \in 1 .. Len(resources') :
         /\ resources'[k].accountId = accountId
         /\ resources'[k].accountName = accountName
    /\ allUnusedResources' = allUnusedResources \o resources'

\* C15: every resource of the returned list carries the accountId and the
\* accountName of the account whose scan produced it, in both modes; until
\* the last batch of an account is done its resources carry neither, and the
\* tagging step changes no other field.
C15_TaggedOnceAfterBatches == [] C15_Tagged /\ [][C15_TagStep]_vars

\* C15 witness: an organization run returned a resource of a child account,
\* tagged with that account
C15_Witness ==
  /\ pc = "returned"
  /\ useOrgMode
  /\ \E k \in 1 .. Len(allUnusedResources) :
       /\ allUnusedResources[k].origin # parentAccountId
       /\ allUnusedResources[k].accountId = allUnusedResources[k].origin
       /\ allUnusedResources[k].accountName = allUnusedResources[k].origin

\* the moves of one account's state the claim allows
AllowedMoves ==
  { <<"pending", "ambient">>, <<"pending", "assuming-role">>,
    <<"ambient", "scanning">>, <<"assuming-role", "scanning">>,
    <<"assuming-role", "skipped">>, <<"scanning", "done">> }

C16_MoveStep ==
  \A a \in Accounts :
    /\ a \in DOMAIN acctState'
    /\ \/ acctState'[a] = acctState[a]
       \/ <<acctState[a], acctState'[a]>> \in AllowedMoves

C16_SkippedNeverScanned ==
  \A a \in Accounts :
    acctState[a] = "skipped" => \A c \in invoked : c.acct # a

\* C16: every account moves pending -> (ambient | assuming-role) -> scanning
\* -> done, skipped is entered only from assuming-role, done and skipped are
\* never left (so a role is assumed at most once per account and there is no
\* retry), and a skipped account has never been scanned.
C16_AccountStateMachine ==
  [][C16_MoveStep]_vars /\ [] C16_SkippedNeverScanned

\* C16 witness: a finished organization run in which the caller's account
\* went through ambient, one child through a failed role assumption and
\* another child through a successful one
C16_Witness ==
  /\ pc = "returned"
  /\ useOrgMode
  /\ parentAccountId \in Accounts
  /\ acctState[parentAccountId] = "done"
  /\ \E a, b \in Accounts \ {parentAccountId} :
       /\ acctState[a] = "skipped"
       /\ acctState[b] = "done"
       /\ [acct |-> b, creds |-> CredentialsOf(b)] \in invoked

(***************************************************************************)
(* Properties of the organization-mode setting.                            *)
(***************************************************************************)
\* C17: ENABLE_ORGANIZATION_MODE decides the mode of the run: with "false"
\* the run is not in organization mode and scans only the caller's own
\* account, whatever CHILD_ACCOUNTS lists; with "true" or unset (the default)
\* organization mode applies to the accounts CHILD_ACCOUNTS lists.
C17_SettingDecidesMode ==
  pc = "returned" =>
    IF ENABLE_ORGANIZATION_MODE = "false"
    THEN /\ ~useOrgMode
         /\ \A c \in invoked : c.acct = parentAccountId /\ c.creds = Null
    ELSE useOrgMode <=> ~NoAccountConfigured

(***************************************************************************)
(* Properties of the report handler.                                       *)
(***************************************************************************)
\* C18: a run that succeeds has sent exactly two Slack messages, the cost
\* report and then the unused-resources report; whatever is posted is a
\* prefix of that pair, the second is posted only once the first was
\* accepted, and nothing is posted in a run one of whose gathered calls
\* (cost retrieval, unused-resource scan, identity lookup) failed.
C18_TwoMessagesInOrder ==
  /\ handlerAt = "done" =>
       /\ posted = <<"cost report", "unused resources report">>
       /\ accepted = posted
  /\ IsPrefix(posted, <<"cost report", "unused resources report">>)
  /\ IsPrefix(accepted, posted)
  /\ Len(posted) <= Len(accepted) + 1
  /\ (\E c \in DOMAIN calls : calls[c] = "rejected") => posted = <<>>

\* C18 witness: a monthly run returned after Slack accepted both messages
C18_Witness ==
  /\ event = "monthly"
  /\ handlerAt = "done"
  /\ Len(accepted) = 2
  /\ \A c \in DOMAIN calls : calls[c] = "resolved"

(***************************************************************************)
(* Properties of the metric gateway.                                       *)
(***************************************************************************)
\* the fraction x is the number n
IsNumber(x, n) == x.den > 0 /\ x.num = n * x.den

\* C19: a gateway call always returns a value, and that value is -1 exactly
\* when the request failed, -2 exactly when it succeeded without datapoints,
\* and otherwise not negative and equal to the arithmetic mean (Average) or
\* the total (Sum) of the datapoints.
C19_GatewayOutcomes ==
  gatewayAt = "returned" =>
    /\ Len(metricValue) = 1
    /\ IsNumber(metricValue[1], -1) <=> metricResponse.fails
    /\ IsNumber(metricValue[1], -2) <=>
         (~metricResponse.fails /\ Len(metricResponse.Datapoints) = 0)
    /\ Conclusive(metricResponse) =>
         /\ metricValue[1].den > 0
         /\ metricValue[1].num >= 0
         /\ IF statistic = "Average"
            THEN metricValue[1].num * Len(metricResponse.Datapoints) =
                   Total(metricResponse.Datapoints) * metricValue[1].den
            ELSE metricValue[1].num =
                   Total(metricResponse.Datapoints) * metricValue[1].den

\* C19 witness: an average query returned the mean 1 of three datapoints
\* that are not all alike
C19_Witness ==
  /\ gatewayAt = "returned"
  /\ statistic = "Average"
  /\ metricResponse = Datapoints(<<0, 1, 2>>)
  /\ metricValue[1].num * 1 = 1 * metricValue[1].den

(***************************************************************************)
(* Properties of the snapshot age.                                         *)
(***************************************************************************)
\* the age of a snapshot or backup in whole days when the checker looks at it
WholeDays(entry) ==
  IF CreatedAt(entry).present THEN CreatedAt(entry).days ELSE 0

\* the entries emitted for id that carry the age reason
OldEntriesFor(id) ==
  {k \in EntriesFor(id) : unusedResources[k].reason \notin OrphanReasons}

\* C20: a snapshot or backup that is evaluated and not orphaned is flagged
\* as old exactly when its age in whole days, which is the day count its
\* reason shows, exceeds SNAPSHOT_AGE_THRESHOLD_DAYS; at a whole-day age
\* equal to the threshold it is not flagged.
C20_OldBeyondWholeDays ==
  (at = "returned" /\ checker \in SnapshotCheckers) =>
    \A s \in Evaluated :
      (Eligible(s.entry) /\ ~OrphanCondition(s.entry)) =>
        /\ OldEntriesFor(s.id) # {} <=>
             WholeDays(s.entry) > SNAPSHOT_AGE_THRESHOLD_DAYS
        /\ \A k \in OldEntriesFor(s.id) :
             unusedResources[k].shown = <<WholeDays(s.entry)>>

(***************************************************************************)
(* Properties of the snapshot state, of the volume checker, of the         *)
(* two-test checkers and of the container clusters.                        *)
(***************************************************************************)
\* the snapshot or backup is in its finished state
Completed(entry) ==
  CASE checker = "checkEBSSnapshots" -> entry.State = "completed"
    [] checker = "checkEFSBackups" -> entry.Status = "COMPLETED"
    [] OTHER -> entry.Status = "available"

\* C21: the EBS-snapshot, RDS-snapshot, RDS-cluster-snapshot and EFS-backup
\* checkers never flag, as orphaned or as old, a snapshot or backup whose
\* state is not completed / available.
C21_OnlyCompletedFlagged ==
  (at = "returned" /\ checker \in SnapshotCheckers) =>
    \A s \in Evaluated : ~Completed(s.entry) => EntriesFor(s.id) = {}

\* the reasons of the entries emitted for id
ReasonsFor(id) == {unusedResources[k].reason : k \in EntriesFor(id)}

\* the metric queries issued for id
QueriesFor(id) == {q \in metricQueries : q[1] = id}

RECURSIVE Weighted(_, _, _)
Weighted(dps, n, k) ==
  IF k > Len(dps) THEN 0 ELSE dps[k] * n[k] + Weighted(dps, n, k + 1)

\* the metric has datapoints and its sum over the range is 0: a day's sum is
\* the day's average times the day's number of samples, at least one
SumConfirmedZero(response) ==
  /\ Conclusive(response)
  /\ \A n \in [DOMAIN response.Datapoints -> 1 .. MaxSamples] :
       Weighted(response.Datapoints, n, 1) = 0

\* C22: a volume without attachments is flagged "Unattached volume" with no
\* metric query issued for it, whatever its I/O metrics hold; an attached
\* volume is flagged "No I/O operations" exactly when its read-operation
\* and write-operation sums are both a confirmed 0, and not flagged
\* otherwise.
C22_VolumeVerdict ==
  (at = "returned" /\ checker = "checkEBSVolumes" /\ ~answers.fails) =>
    \A k \in DOMAIN answers.items :
      /\ Cardinality(EntriesFor(k)) <= 1
      /\ IF answers.items[k].Attachments = 0
         THEN /\ ReasonsFor(k) = {"Unattached volume"}
              /\ QueriesFor(k) = {}
         ELSE /\ ReasonsFor(k) \subseteq {"No I/O operations"}
              /\ ReasonsFor(k) # {} <=>
                   /\ SumConfirmedZero(answers.items[k].VolumeReadOps)
                   /\ SumConfirmedZero(answers.items[k].VolumeWriteOps)

\* C22 witness: an unattached volume with I/O recorded was flagged without
\* a query, and an attached volume with both metrics at 0 was flagged
C22_Witness ==
  /\ at = "returned"
  /\ checker = "checkEBSVolumes"
  /\ Len(answers.items) = 2
  /\ answers.items[1].Attachments = 0
  /\ answers.items[1].VolumeReadOps = Datapoints(<<3>>)
  /\ answers.items[2].Attachments = 1
  /\ ReasonsFor(1) = {"Unattached volume"}
  /\ ReasonsFor(2) = {"No I/O operations"}
  /\ QueriesFor(1) = {}
  /\ Cardinality(QueriesFor(2)) = 2

TwoTestCheckers ==
  { "checkEC2Instances", "checkRDSInstances", "checkEKSClusters",
    "checkElastiCacheClusters", "checkRedshiftClusters",
    "checkOpenSearchDomains" }

\* the first test of the checker flags the inventory entry
FirstTestFlags(entry) ==
  CASE checker = "checkEC2Instances" ->
         BelowThreshold(entry.CPUUtilization, CPU_THRESHOLD)
    [] checker = "checkEKSClusters" ->
         ConfirmedZero(entry.cluster_node_count)
    [] checker = "checkOpenSearchDomains" -> ConfirmedZero(entry.SearchRate)
    [] OTHER -> BelowThreshold(entry[ConnectionsMetric], CONNECTIONS_THRESHOLD)

FirstReason ==
  CASE checker = "checkEC2Instances" -> "Low CPU"
    [] checker = "checkEKSClusters" -> "No nodes in cluster"
    [] checker = "checkOpenSearchDomains" -> "No search requests"
    [] OTHER -> "No connections"

\* the metrics of the second test
SecondMetrics ==
  IF checker = "checkEC2Instances" THEN {"NetworkIn", "NetworkOut"}
  ELSE {CpuMetric}

\* the loop gets to entry k and does not skip it for its status
Inspected(k) ==
  CASE checker = "checkEC2Instances" -> TRUE
    [] checker = "checkRDSInstances" ->
         answers.items[k].DBInstanceStatus = "available"
    [] checker = "checkElastiCacheClusters" ->
         answers.items[k].CacheClusterStatus = "available"
    [] checker = "checkRedshiftClusters" ->
         answers.items[k].ClusterStatus = "available"
    [] checker = "checkEKSClusters" ->
         /\ \A j \in 1 .. k : ~answers.items[j].fails
         /\ answers.items[k].status = "ACTIVE"
    [] checker = "checkOpenSearchDomains" ->
         /\ \A j \in 1 .. k : ~answers.items[j].fails
         /\ answers.items[k].Created

\* C23: a two-test checker (EC2, RDS instance, EKS, ElastiCache, Redshift,
\* OpenSearch) emits at most one entry per inventoried resource; when the
\* first test flags, the entry carries the first test's reason and no metric
\* of the second test was queried for the resource; a metric of the second
\* test is queried only for a resource the first test did not flag.
C23_FirstTestShortCircuits ==
  (at = "returned" /\ checker \in TwoTestCheckers /\ ~answers.fails) =>
    \A k \in DOMAIN answers.items :
      /\ Cardinality(EntriesFor(k)) <= 1
      /\ (Inspected(k) /\ FirstTestFlags(answers.items[k])) =>
           /\ ReasonsFor(k) = {FirstReason}
           /\ \A q \in QueriesFor(k) : q[2] \notin SecondMetrics
      /\ (\E q \in QueriesFor(k) : q[2] \in SecondMetrics) =>
           (Inspected(k) /\ ~FirstTestFlags(answers.items[k]))

\* C23 witness: of two RDS instances with low CPU, the one without
\* connections was flagged for that with its CPU never queried, the other
\* was flagged for its CPU
C23_Witness ==
  /\ at = "returned"
  /\ checker = "checkRDSInstances"
  /\ Len(answers.items) = 2
  /\ answers.items[1].DatabaseConnections = Datapoints(<<0>>)
  /\ answers.items[1].CPUUtilization = Datapoints(<<3>>)
  /\ answers.items[2].DatabaseConnections = Datapoints(<<3>>)
  /\ answers.items[2].CPUUtilization = Datapoints(<<3>>)
  /\ ReasonsFor(1) = {"No connections"}
  /\ QueriesFor(1) = {<<1, "DatabaseConnections">>}
  /\ ReasonsFor(2) = {"Low CPU"}
  /\ <<2, "CPUUtilization">> \in QueriesFor(2)

\* C24: in a cluster with services every service is evaluated, however many
\* there are: one with runningCount = 0 and desiredCount = 0 is flagged "No
\* running tasks", one with running tasks has its CPU queried and is flagged
\* "Low CPU" exactly when that is conclusive and below the threshold; a
\* cluster without services yields exactly one "No services in cluster".
C24_EveryServiceEvaluated ==
  (at = "returned" /\ checker = "checkECSClusters" /\ ~answers.fails) =>
    \A c \in DOMAIN answers.items :
      (\A b \in 1 .. c : ~answers.items[b].fails) =>
        IF Len(answers.items[c].services) = 0
        THEN /\ ReasonsFor(<<c, 0>>) = {"No services in cluster"}
             /\ Cardinality(EntriesFor(<<c, 0>>)) = 1
        ELSE \A j \in DOMAIN answers.items[c].services :
               LET service == answers.items[c].services[j]
               IN  /\ (service.runningCount = 0 /\ service.desiredCount = 0)
                        => ReasonsFor(<<c, j>>) = {"No running tasks"}
                   /\ service.runningCount > 0 =>
                        /\ <<<<c, j>>, "CPUUtilization">> \in metricQueries
                        /\ ReasonsFor(<<c, j>>) = {"Low CPU"} <=>
                             BelowThreshold(service.CPUUtilization,
                                            CPU_THRESHOLD)

(***************************************************************************)
(* Properties of the error tally, of the identity lookup and of the        *)
(* account list.                                                           *)
(***************************************************************************)
SkippedAccounts == {a \in Accounts : acctState[a] = "skipped"}

\* C25: when detectUnusedResources returns, the error tally is the number of
\* accounts skipped for a failed role assumption plus the number of
\* (account, region) scans in which an error escaped a checker; nothing
\* else adds to it.
C25_TallyCountsSkipsAndEscapes ==
  pc = "returned" =>
    totalErrors = Cardinality(SkippedAccounts) + Cardinality(caught)

\* C25 witness: a run returned after skipping one account and after an error
\* escaped a checker in a region of another
C25_Witness ==
  /\ pc = "returned"
  /\ Cardinality(SkippedAccounts) = 1
  /\ \E e \in caught : acctState[e.acct] = "done"
  /\ totalErrors = 2

\* C26: in a handler invocation that began with an empty cache,
\* GetCallerIdentity is sent at most once although the generator and
\* detectUnusedResources both call getAccountId, and every caller that got
\* an account id got the same one.
C26_OneIdentityLookup ==
  coldStart =>
    /\ identityRequests <= 1
    /\ \A j, k \in DOMAIN lookups :
         (lookups[j].at = "returned" /\ lookups[k].at = "returned") =>
           lookups[j].id = lookups[k].id

\* the run is past the choice of its branch
BranchChosen == pc \in {"next", "assuming", "call", "batch", "awaitBatch",
                        "returned"}

\* the branch "Organization mode enabled but no accounts found" is taken
FallbackTaken == BranchChosen /\ useOrgMode /\ ~OrgBranch

\* C27: shouldUseOrganizationMode() is true exactly when
\* getConfiguredAccounts() returns a map that is not empty, the map is never
\* returned empty, and so no run takes the fallback branch of
\* detectUnusedResources.
C27_FallbackNeverTaken ==
  /\ shouldUseOrganizationMode(CHILD_ACCOUNTS) <=>
       /\ ~getConfiguredAccounts(CHILD_ACCOUNTS).isNull
       /\ getConfiguredAccounts(CHILD_ACCOUNTS).ids # <<>>
  /\ getConfiguredAccounts(CHILD_ACCOUNTS).isNull <=>
       getConfiguredAccounts(CHILD_ACCOUNTS).ids = <<>>
  /\ BranchChosen =>
       useOrgMode = shouldUseOrganizationMode(CHILD_ACCOUNTS)
  /\ ~FallbackTaken

\* C27 witness: a run with a padded list naming one account twice took the
\* organization branch and returned
C27_Witness ==
  /\ pc = "returned"
  /\ Len(CHILD_ACCOUNTS) > 3
  /\ useOrgMode
  /\ OrgBranch
  /\ orgAccounts = <<<<"2">>>>

(***************************************************************************)
(* Properties of the unused-resources table.                               *)
(***************************************************************************)
\* C28: the table built from the returned list has the "Account ID" column
\* exactly when the list comes from an organization-mode scan; for a list
\* that is not empty and comes from a single-account scan it has the five
\* columns #, Service, Resource, Region, Reason.
C28_AccountColumnInOrgModeOnly ==
  (pc = "returned" /\ allUnusedResources # <<>>) =>
    LET table == buildUnusedResourcesTable(allUnusedResources)
    IN  /\ "Account ID" \in Range(table.header) <=> useOrgMode
        /\ ~useOrgMode =>
             table.header = <<"#", "Service", "Resource", "Region", "Reason">>


\* the ids CHILD_ACCOUNTS names: its trimmed entries that are not blank
ConfiguredIds ==
  {trim(e) : e \in Range(split(CHILD_ACCOUNTS))} \ {<<>>}

\* the account loop visits an account: an ambient use or a role assumption
C29_VisitStep ==
  (pc = "next" /\ pc' \in {"call", "assuming"}) =>
    acctState[CurrentAccount] = "pending"

C29_OncePerId ==
  (BranchChosen /\ OrgBranch) =>
    /\ Range(orgAccounts) = ConfiguredIds
    /\ Len(orgAccounts) = Cardinality(ConfiguredIds)
    /\ pc = "returned" => \A a \in ConfiguredIds : acctState[a] \in Terminal
    /\ \A a \in ConfiguredIds : \A r \in AWS_REGIONS :
         \/ CountFrom(allUnusedResources, a, r) = 0
         \/ \E e \in returned :
              /\ e.acct = a
              /\ e.region = r
              /\ CountFrom(allUnusedResources, a, r) <= e.n

\* C29: in organization mode each distinct account id of CHILD_ACCOUNTS is
\* visited exactly once per run (one ambient use or one role assumption, at
\* most one account scan), also when the list repeats an id, has blank
\* entries or surrounding whitespace, and no region of an account has more
\* resources in the result than its checkers returned.
C29_EachIdProcessedOnce == [] C29_OncePerId /\ [][C29_VisitStep]_vars

\* C29 witness: a run over " 2, ,2 " returned with a resource of account 2
C29_Witness ==
  /\ pc = "returned"
  /\ CHILD_ACCOUNTS = <<" ", "2", ",", " ", ",", "2", " ">>
  /\ orgAccounts = << <<"2">> >>
  /\ \E k \in 1 .. Len(allUnusedResources) :
       allUnusedResources[k].origin = <<"2">>


\* detectUnusedResources has handed its result to the caller
Ended == pc \in {"returned", "thrown"}

\* every configured account is done or skipped and the last account scan
\* went through its five batches with no region scan left running
AllAccountsSettled ==
  /\ \A a \in Accounts : acctState[a] \in Terminal
  /\ running = {}
  /\ (accountId \in Accounts /\ acctState[accountId] = "done") =>
       Len(batchLog) = 5

\* C30: when every external call returns or fails, detectUnusedResources
\* eventually returns, and by then every configured account is done or
\* skipped and every batch of every scanned account has completed.  A failed
\* caller-identity lookup ends the run by raising before any account is
\* looked at.
C30_ReturnsWithAllSettled == <>(pc = "returned" /\ AllAccountsSettled)

=============================================================================
